---- MODULE Spec2Model ----
(***************************************************************************)
(* Model of the node-type registry, the generic CRUD engine                *)
(* (NodeBuilderController), the public node controller with its path       *)
(* resolver (NodeController) and the validation / transform helpers of     *)
(* ioncorecms-ssr.                                                         *)
(*                                                                         *)
(* Strings are sequences of one-character strings, so that the regular     *)
(* expressions, joins, slices and concatenations of the code are computed  *)
(* character by character.  JavaScript values are tagged records           *)
(* [t |-> type tag, v |-> payload].                                        *)
(***************************************************************************)
EXTENDS Integers, Sequences, FiniteSets, TLC

(***************************************************************************)
(* Bounds of the model.                                                    *)
(***************************************************************************)
\* register calls performed while the process boots
MaxRegs == 2
\* rows ever inserted (over all tables); caps the auto-increment counters
MaxCreates == 2

\* requests in progress at the same time
MaxSlots == 2

\* upload requests
MaxUploads == 3

\* block instances in the value of a blocks field
MaxBlocks == 3

\* migration files
MaxMigrations == 5

(***************************************************************************)
(* Characters and strings.                                                 *)
(***************************************************************************)
Digits == {"0", "1", "2", "3", "4", "5", "6", "7", "8", "9"}

LowerCase == {"a", "b", "c", "d", "e", "f", "g", "h", "i", "j", "k", "l", "m",
              "n", "o", "p", "q", "r", "s", "t", "u", "v", "w", "x", "y", "z"}

DigitVal(c) ==
  CASE c = "0" -> 0 [] c = "1" -> 1 [] c = "2" -> 2 [] c = "3" -> 3
    [] c = "4" -> 4 [] c = "5" -> 5 [] c = "6" -> 6 [] c = "7" -> 7
    [] c = "8" -> 8 [] c = "9" -> 9

DigitChar(d) ==
  CASE d = 0 -> "0" [] d = 1 -> "1" [] d = 2 -> "2" [] d = 3 -> "3"
    [] d = 4 -> "4" [] d = 5 -> "5" [] d = 6 -> "6" [] d = 7 -> "7"
    [] d = 8 -> "8" [] d = 9 -> "9"

\* /^\d+$/.test(s)
AllDigits(s) == Len(s) >= 1 /\ \A i \in 1..Len(s) : s[i] \in Digits

\* parseInt(s) of an all-digit string
RECURSIVE parseInt(_)
parseInt(s) ==
  IF Len(s) = 0 THEN 0
  ELSE 10 * parseInt(SubSeq(s, 1, Len(s) - 1)) + DigitVal(s[Len(s)])

\* String(n) of a non-negative integer
RECURSIVE NumToString(_)
NumToString(n) ==
  IF n < 10 THEN <<DigitChar(n)>>
  ELSE NumToString(n \div 10) \o <<DigitChar(n % 10)>>

\* Array.prototype.join(sep) on an array of strings
RECURSIVE join(_, _)
join(segs, sep) ==
  IF Len(segs) = 0 THEN <<>>
  ELSE IF Len(segs) = 1 THEN segs[1]
  ELSE segs[1] \o sep \o join(Tail(segs), sep)

\* the strings the scenarios use
S_1 == <<"1">>
S_2 == <<"2">>
S_7 == <<"7">>
S_blog == <<"b", "l", "o", "g">>
S_Blog == <<"B", "l", "o", "g">>
S_t == <<"t">>
S_page == <<"p", "a", "g", "e">>
S_article == <<"a", "r", "t", "i", "c", "l", "e">>
S_ghost == <<"g", "h", "o", "s", "t">>
S_memo == <<"m", "e", "m", "o">>
S_note == <<"n", "o", "t", "e">>
S_card == <<"c", "a", "r", "d">>
S_constructor == <<"c", "o", "n", "s", "t", "r", "u", "c", "t", "o", "r">>
S_slash == <<"/">>

(***************************************************************************)
(* JavaScript values.                                                      *)
(***************************************************************************)
JUndefined == [t |-> "undefined", v |-> 0]
JNull == [t |-> "null", v |-> 0]
JStr(s) == [t |-> "string", v |-> s]
JNum(n) == [t |-> "number", v |-> n]
JBool(b) == [t |-> "boolean", v |-> b]
JArr(a) == [t |-> "array", v |-> a]
\* an object, known by the set of its keys
JObj(keys) == [t |-> "object", v |-> keys]

\* ToBoolean(x) as applied by `if (x)`, `x && ...` and `!x`
Truthy(x) ==
  CASE x.t = "undefined" -> FALSE
    [] x.t = "null" -> FALSE
    [] x.t = "string" -> Len(x.v) > 0
    [] x.t = "number" -> x.v # 0
    [] x.t = "boolean" -> x.v
    [] OTHER -> TRUE

\* obj[key] of a plain object held as a function from keys to values
Prop(obj, key) == IF key \in DOMAIN obj THEN obj[key] ELSE JUndefined

(***************************************************************************)
(* Field definitions (FieldDefinition of NodeRegistry.ts).  An attribute   *)
(* a definition does not declare is JUndefined.                            *)
(***************************************************************************)
\* the regular expression source "^[a-z0-9-]+$" of the slug fields
P_slug == <<"^", "[", "a", "-", "z", "0", "-", "9", "-", "]", "+", "$">>

\* new RegExp(pattern).test(s), for the pattern the node types declare
RegExpTest(pattern, s) ==
  CASE pattern = P_slug ->
         Len(s) >= 1 /\ \A i \in 1..Len(s) : s[i] \in LowerCase \cup Digits \cup {"-"}

JFun(name) == [t |-> "function", v |-> name]

NoValidation ==
  [required |-> JUndefined, min |-> JUndefined, max |-> JUndefined,
   minLength |-> JUndefined, maxLength |-> JUndefined, pattern |-> JUndefined,
   custom |-> JUndefined]

FieldBase(name, type) ==
  [name |-> name, type |-> type, validation |-> NoValidation,
   minItems |-> JUndefined, maxItems |-> JUndefined, multiple |-> JUndefined,
   save |-> JUndefined, load |-> JUndefined]

\* the text a custom validator returns when it returns a string
CustomText == "value rejected"

\* validation.custom(value): what the call returns, or that it throws
CustomCall(fn, value) ==
  CASE fn = "ok" -> [threw |-> FALSE, value |-> JBool(TRUE)]
    [] fn = "reject" -> [threw |-> FALSE, value |-> JBool(FALSE)]
    [] fn = "explain" -> [threw |-> FALSE, value |-> JStr(<<CustomText>>)]
    [] fn = "throws" -> [threw |-> TRUE, value |-> JUndefined]

(***************************************************************************)
(* validateNodeData.  A message is the sequence of the pieces the template *)
(* literal concatenates.                                                   *)
(***************************************************************************)
\* value === undefined || value === null || value === ''
IsEmptyValue(value) ==
  value.t = "undefined" \/ value.t = "null" \/ (value.t = "string" /\ Len(value.v) = 0)

\* !node || typeof node !== 'object' || !('id' in node) || !('nodeType' in node)
BadNodeRef(node) ==
  \/ ~Truthy(node)
  \/ node.t \notin {"object", "array"}
  \/ (node.t = "object" /\ ~({"id", "nodeType"} \subseteq node.v))
  \/ node.t = "array"

RECURSIVE NodeRefErrors(_, _, _)
NodeRefErrors(fieldName, arr, i) ==
  IF i > Len(arr) THEN <<>>
  ELSE (IF BadNodeRef(arr[i])
          THEN << <<"Field '", fieldName, "' contains invalid node reference at position ",
                    ToString(i), " (must have id and nodeType)">> >>
          ELSE <<>>)
       \o NodeRefErrors(fieldName, arr, i + 1)

\* the switch (fieldType) of validateNodeData
TypeErrors(field, value) ==
  LET n == field.name
      val == field.validation
  IN
  CASE field.type \in {"text", "textarea", "email", "url", "slug"} ->
         IF value.t # "string"
           THEN << <<"Field '", n, "' must be a string">> >>
           ELSE (IF Truthy(val.minLength) /\ Len(value.v) < val.minLength.v
                   THEN << <<"Field '", n, "' must be at least ", ToString(val.minLength.v),
                             " characters long">> >>
                   ELSE <<>>)
                \o (IF Truthy(val.maxLength) /\ Len(value.v) > val.maxLength.v
                      THEN << <<"Field '", n, "' must be no more than ", ToString(val.maxLength.v),
                                " characters long">> >>
                      ELSE <<>>)
                \o (IF Truthy(val.pattern) /\ ~RegExpTest(val.pattern.v, value.v)
                      THEN << <<"Field '", n, "' does not match the required pattern">> >>
                      ELSE <<>>)
    [] field.type = "number" ->
         IF value.t # "number"
           THEN << <<"Field '", n, "' must be a number">> >>
           ELSE (IF Truthy(val.min) /\ value.v < val.min.v
                   THEN << <<"Field '", n, "' must be at least ", ToString(val.min.v)>> >>
                   ELSE <<>>)
                \o (IF Truthy(val.max) /\ value.v > val.max.v
                      THEN << <<"Field '", n, "' must be no more than ", ToString(val.max.v)>> >>
                      ELSE <<>>)
    [] field.type = "boolean" ->
         IF value.t # "boolean"
           THEN << <<"Field '", n, "' must be a boolean">> >>
           ELSE <<>>
    [] field.type = "array" ->
         IF value.t # "array"
           THEN << <<"Field '", n, "' must be an array">> >>
           ELSE (IF Truthy(field.minItems) /\ Len(value.v) < field.minItems.v
                   THEN << <<"Field '", n, "' must have at least ", ToString(field.minItems.v),
                             " items">> >>
                   ELSE <<>>)
                \o (IF Truthy(field.maxItems) /\ Len(value.v) > field.maxItems.v
                      THEN << <<"Field '", n, "' must have no more than ", ToString(field.maxItems.v),
                                " items">> >>
                      ELSE <<>>)
    [] field.type = "node" ->
         IF Truthy(field.multiple)
           THEN IF value.t # "array"
                  THEN << <<"Field '", n, "' must be an array of nodes">> >>
                  ELSE NodeRefErrors(n, value.v, 1)
           ELSE IF value.t \notin {"object", "array"}
                   \/ value.t = "array"
                   \/ ~({"id", "nodeType"} \subseteq value.v)
                  THEN << <<"Field '", n,
                            "' must be a valid node reference (must have id and nodeType)">> >>
                  ELSE <<>>
    [] OTHER -> <<>>

\* the "Custom validation" block of validateNodeData
CustomErrors(field, value) ==
  LET c == field.validation.custom IN
  IF c.t # "function" THEN <<>>
  ELSE LET r == CustomCall(c.v, value) IN
       IF r.threw
         THEN << <<"Field '", field.name, "' custom validation error: ", "Error">> >>
         ELSE IF r.value = JBool(TRUE) THEN <<>>
         ELSE IF r.value.t = "string" THEN <<r.value.v>>
         ELSE << <<"Field '", field.name, "' failed custom validation">> >>

\* one iteration of the for loop of validateNodeData
FieldErrors(field, data) ==
  LET value == Prop(data, field.name)
      required == Truthy(field.validation.required)
  IN
  IF required /\ IsEmptyValue(value)
    THEN << <<"Field '", field.name, "' is required">> >>
  ELSE IF ~required /\ IsEmptyValue(value) THEN <<>>
  ELSE TypeErrors(field, value) \o CustomErrors(field, value)

RECURSIVE ValidationErrors(_, _)
ValidationErrors(data, fields) ==
  IF Len(fields) = 0 THEN <<>>
  ELSE FieldErrors(fields[1], data) \o ValidationErrors(data, Tail(fields))

(***************************************************************************)
(* NodeBuilder.validateForm, the validation of the editor.  newErrors has  *)
(* one entry per field name; the form is accepted when it has none.        *)
(***************************************************************************)
\* one call of the forEach callback: the field gets an entry in newErrors
FormFieldError(field, formData) ==
  LET value == Prop(formData, field.name)
      val == field.validation
      required == Truthy(val.required)
      typeError ==
        CASE field.type \in {"text", "textarea", "email", "url", "slug"} ->
               /\ value.t = "string"
               /\ \/ Truthy(val.minLength) /\ Len(value.v) < val.minLength.v
                  \/ Truthy(val.maxLength) /\ Len(value.v) > val.maxLength.v
                  \/ Truthy(val.pattern) /\ ~RegExpTest(val.pattern.v, value.v)
          [] field.type = "number" ->
               /\ value.t = "number"
               /\ \/ val.min.t # "undefined" /\ value.v < val.min.v
                  \/ val.max.t # "undefined" /\ value.v > val.max.v
          [] field.type = "array" ->
               /\ value.t = "array"
               /\ \/ Truthy(field.minItems) /\ Len(value.v) < field.minItems.v
                  \/ Truthy(field.maxItems) /\ Len(value.v) > field.maxItems.v
          [] field.type = "node" ->
               IF Truthy(field.multiple)
                 THEN value.t # "array" /\ value.t \notin {"null", "undefined"}
                 ELSE /\ value.t \notin {"null", "undefined"}
                      /\ \/ value.t \notin {"object", "array"}
                         \/ value.t = "array"
                         \/ "id" \notin value.v
          [] OTHER -> FALSE
      customError ==
        /\ Truthy(val.custom)
        /\ LET r == CustomCall(val.custom.v, value) IN r.threw \/ r.value # JBool(TRUE)
  IN
  IF required /\ IsEmptyValue(value) THEN TRUE
  ELSE IF ~required /\ IsEmptyValue(value) THEN FALSE
  ELSE typeError \/ customError

\* validateForm(): Object.keys(newErrors).length === 0
validateForm(formData, fields) ==
  \A i \in DOMAIN fields : ~FormFieldError(fields[i], formData)

\* mutant: isValid computed as errors.length <= 1
validateNodeData_OffByOne(data, fields) ==
  LET errors == ValidationErrors(data, fields)
  IN [isValid |-> Len(errors) <= 1, errors |-> errors]

validateNodeData(data, fields) ==
  LET errors == ValidationErrors(data, fields)
  IN [isValid |-> Len(errors) = 0, errors |-> errors]

(***************************************************************************)
(* save and load hooks of the field definitions.                           *)
(***************************************************************************)
UpperLetters == <<"A", "B", "C", "D", "E", "F", "G", "H", "I", "J", "K", "L", "M",
                  "N", "O", "P", "Q", "R", "S", "T", "U", "V", "W", "X", "Y", "Z">>

LowerLetters == <<"a", "b", "c", "d", "e", "f", "g", "h", "i", "j", "k", "l", "m",
                  "n", "o", "p", "q", "r", "s", "t", "u", "v", "w", "x", "y", "z">>

\* mutant: the letters keep their case
toLowerCase_KeepCase(s) == s

\* String.prototype.toLowerCase
toLowerCase(s) ==
  [i \in 1..Len(s) |->
     IF \E k \in 1..Len(UpperLetters) : UpperLetters[k] = s[i]
       THEN LowerLetters[CHOOSE k \in 1..Len(UpperLetters) : UpperLetters[k] = s[i]]
       ELSE s[i]]

\* String.prototype.trim
RECURSIVE trim(_)
trim(s) ==
  IF Len(s) = 0 THEN s
  ELSE IF s[1] = " " THEN trim(Tail(s))
  ELSE IF s[Len(s)] = " " THEN trim(SubSeq(s, 1, Len(s) - 1))
  ELSE s

\* JSON.stringify of the values the requests carry
jsonStringify(value) ==
  CASE value.t = "string" -> JStr(<<"\"">> \o value.v \o <<"\"">>)
    [] value.t = "array" /\ Len(value.v) = 0 -> JStr(<<"[", "]">>)
    [] value.t = "null" -> JStr(<<"n", "u", "l", "l">>)

\* the load hook of the page content field: JSON.parse, [] when it throws
jsonParseOrEmpty(text) ==
  IF text.t # "string" THEN JArr(<<>>)
  ELSE IF text.v = <<"[", "]">> THEN JArr(<<>>)
  ELSE IF Len(text.v) >= 2 /\ text.v[1] = "\"" /\ text.v[Len(text.v)] = "\""
    THEN JStr(SubSeq(text.v, 2, Len(text.v) - 1))
  ELSE IF AllDigits(text.v) /\ (Len(text.v) = 1 \/ text.v[1] # "0")
    THEN JNum(parseInt(text.v))
  ELSE JArr(<<>>)

\* mutant: the slug hooks return the value in upper case
SaveCall_UpperCase(fn, instance, value) ==
  CASE fn \in {"trimLower", "assignSlug"} ->
         IF value.t # "string"
           THEN [threw |-> TRUE, value |-> JUndefined, instance |-> instance]
           ELSE [threw |-> FALSE,
                 value |-> JStr([i \in 1..Len(value.v) |->
                                   IF \E k \in 1..Len(LowerLetters) : LowerLetters[k] = value.v[i]
                                     THEN UpperLetters[CHOOSE k \in 1..Len(LowerLetters) :
                                                         LowerLetters[k] = value.v[i]]
                                     ELSE value.v[i]]),
                 instance |-> instance]
    [] fn = "jsonStringify" ->
         [threw |-> FALSE, value |-> jsonStringify(value), instance |-> instance]
    [] fn = "throws" -> [threw |-> TRUE, value |-> JUndefined, instance |-> instance]
    [] fn \in {"setTitle", "setSlug"} ->
         IF value.t # "string"
           THEN [threw |-> TRUE, value |-> JUndefined, instance |-> instance]
           ELSE LET column == IF fn = "setTitle" THEN "title" ELSE "slug"
                    v == JStr(toLowerCase(trim(value.v)))
                IN [threw |-> FALSE, value |-> JUndefined,
                    instance |-> [k \in DOMAIN instance \cup {column} |->
                                    IF k = column THEN v ELSE instance[k]]]

\* saveFunction(instance, value): the thrown flag, the value returned and the
\* owner instance as the hook leaves it
SaveCall(fn, instance, value) ==
  CASE fn = "trimLower" ->
         IF value.t # "string"
           THEN [threw |-> TRUE, value |-> JUndefined, instance |-> instance]
           ELSE [threw |-> FALSE, value |-> JStr(toLowerCase(trim(value.v))),
                 instance |-> instance]
    [] fn = "assignSlug" ->
         IF value.t # "string"
           THEN [threw |-> TRUE, value |-> JUndefined, instance |-> instance]
           ELSE LET v == JStr(toLowerCase(trim(value.v)))
                IN [threw |-> FALSE, value |-> v,
                    instance |-> [k \in DOMAIN instance \cup {"slug"} |->
                                    IF k = "slug" THEN v ELSE instance[k]]]
    [] fn = "jsonStringify" ->
         [threw |-> FALSE, value |-> jsonStringify(value), instance |-> instance]
    [] fn = "throws" -> [threw |-> TRUE, value |-> JUndefined, instance |-> instance]
    [] fn \in {"setTitle", "setSlug"} ->
         IF value.t # "string"
           THEN [threw |-> TRUE, value |-> JUndefined, instance |-> instance]
           ELSE LET column == IF fn = "setTitle" THEN "title" ELSE "slug"
                    v == JStr(toLowerCase(trim(value.v)))
                IN [threw |-> FALSE, value |-> JUndefined,
                    instance |-> [k \in DOMAIN instance \cup {column} |->
                                    IF k = column THEN v ELSE instance[k]]]

\* loadFunction(instance)
LoadCall(fn, instance) ==
  CASE fn = "jsonParse" ->
         [threw |-> FALSE, value |-> jsonParseOrEmpty(Prop(instance, "content"))]
    [] fn = "slugLength" ->
         IF Prop(instance, "slug").t = "string"
           THEN [threw |-> FALSE, value |-> JNum(Len(instance.slug.v))]
           ELSE [threw |-> TRUE, value |-> JUndefined]
    [] fn = "nothing" -> [threw |-> FALSE, value |-> JUndefined]
    [] fn = "throws" -> [threw |-> TRUE, value |-> JUndefined]

\* an object literal without properties
EmptyObject == [k \in {} |-> JUndefined]

RECURSIVE SaveLoop(_, _, _, _)
SaveLoop(data, fields, instance, processedData) ==
  IF Len(fields) = 0
    THEN [threw |-> FALSE, data |-> processedData, instance |-> instance]
  ELSE LET field == fields[1]
           value == Prop(data, field.name)
       IN
       IF field.save.t = "function" /\ value.t # "undefined"
         THEN LET r == SaveCall(field.save.v, instance, value) IN
              IF r.threw
                THEN [threw |-> TRUE, data |-> processedData, instance |-> r.instance]
                ELSE SaveLoop(data, Tail(fields), r.instance,
                              IF r.value.t # "undefined"
                                THEN [k \in DOMAIN processedData \cup {field.name} |->
                                        IF k = field.name THEN r.value ELSE processedData[k]]
                                ELSE processedData)
         ELSE SaveLoop(data, Tail(fields), instance, processedData)

\* mutant: the error of a save hook is swallowed, the data processed so far is returned
processNodeForSave_Swallow(data, fields, instance) ==
  [SaveLoop(data, fields, IF instance = JUndefined THEN EmptyObject ELSE instance, data)
     EXCEPT !.threw = FALSE]

\* processNodeForSave(data, fields, instance); `instance` is JUndefined on Create
processNodeForSave(data, fields, instance) ==
  SaveLoop(data, fields, IF instance = JUndefined THEN EmptyObject ELSE instance, data)

RECURSIVE DisplayLoop(_, _, _)
DisplayLoop(instance, fields, processedData) ==
  IF Len(fields) = 0 THEN processedData
  ELSE LET field == fields[1]
           put(v) == [k \in DOMAIN processedData \cup {field.name} |->
                        IF k = field.name THEN v ELSE processedData[k]]
       IN
       IF field.load.t = "function"
         THEN LET r == LoadCall(field.load.v, instance) IN
              DisplayLoop(instance, Tail(fields),
                          IF ~r.threw /\ r.value.t # "undefined"
                            THEN put(r.value) ELSE processedData)
         ELSE DisplayLoop(instance, Tail(fields),
                          IF Prop(instance, field.name).t # "undefined"
                            THEN put(instance[field.name]) ELSE processedData)

\* mutant: a field whose load hook throws is set to null
processNodeForDisplay_NullOnThrow(instance, fields) ==
  LET shown == DisplayLoop(instance, fields, instance) IN
  [k \in DOMAIN shown |->
     IF \E i \in 1..Len(fields) :
          /\ fields[i].name = k
          /\ fields[i].load.t = "function"
          /\ LoadCall(fields[i].load.v, instance).threw
       THEN JNull
       ELSE shown[k]]

\* processNodeForDisplay(instance, fields)
processNodeForDisplay(instance, fields) == DisplayLoop(instance, fields, instance)

(***************************************************************************)
(* The field lists of the node types: those of models/nodes (page and      *)
(* article) and a list without slug field.                                 *)
(***************************************************************************)
SlugField(save) ==
  [FieldBase("slug", "slug") EXCEPT
     !.validation = [NoValidation EXCEPT !.required = JBool(TRUE),
                                         !.pattern = JStr(P_slug),
                                         !.minLength = JNum(1),
                                         !.maxLength = JNum(100)],
     !.save = JFun(save)]

TitleField ==
  [FieldBase("title", "text") EXCEPT
     !.validation = [NoValidation EXCEPT !.required = JBool(TRUE),
                                         !.minLength = JNum(1),
                                         !.maxLength = JNum(200)]]

PageContentField ==
  [FieldBase("content", "blocks") EXCEPT
     !.save = JFun("jsonStringify"), !.load = JFun("jsonParse")]

ExcerptField ==
  [FieldBase("excerpt", "textarea") EXCEPT
     !.validation = [NoValidation EXCEPT !.required = JBool(FALSE),
                                         !.maxLength = JNum(500)]]

ArticleContentField ==
  [FieldBase("content", "textarea") EXCEPT
     !.validation = [NoValidation EXCEPT !.required = JBool(TRUE),
                                         !.minLength = JNum(50)]]

PageFields == <<SlugField("trimLower"), TitleField, PageContentField>>

ArticleFields == <<SlugField("assignSlug"), TitleField, ExcerptField, ArticleContentField>>

\* a field list whose second save hook throws, after the slug hook has run
MemoFields == <<SlugField("assignSlug"), [TitleField EXCEPT !.save = JFun("throws")]>>

\* field lists whose title hook sets a column of the owner instance (the
\* title, the slug) and returns nothing
NoteFields == <<[TitleField EXCEPT !.save = JFun("setTitle")], ArticleContentField>>

CardFields == <<[TitleField EXCEPT !.save = JFun("setSlug")], ArticleContentField>>

\* a field list without slug field
PlainFields == <<TitleField, ArticleContentField>>

\* the field arrays the declarations pass to register; the registry holds a
\* reference to the array, here its name
FieldList(ref) ==
  CASE ref = "PageFields" -> PageFields
    [] ref = "ArticleFields" -> ArticleFields
    [] ref = "PlainFields" -> PlainFields
    [] ref = "MemoFields" -> MemoFields
    [] ref = "NoteFields" -> NoteFields
    [] ref = "CardFields" -> CardFields

(***************************************************************************)
(* State.                                                                  *)
(***************************************************************************)
VARIABLES
  phase,     \* "boot" while the model modules are imported, then "serving"
  types,     \* NodeRegistry._types: its entries in own-property order
  regLog,    \* history: the register calls made, in call order
  users,     \* the users table: id -> [role, isActive]
  store,     \* the node tables: Model -> set of rows
  autoInc,   \* the AUTO_INCREMENT counter of each node table
  res,       \* the response of the last request handled
  form,      \* a field list and a value map handed to validateNodeData
  verdict,   \* what validateNodeData returned for the form
  inflight,  \* the update requests between their findByPk and their node.update
  hook,      \* an instance and a field list handed to processNodeForDisplay, and the result
  disk,      \* the paths of the files in the upload directory
  files,     \* the files table: the File records
  uploads,   \* the upload requests: the stage each has reached
  blocks,    \* the value of a blocks field in the editor: its block instances
  signups,   \* the register requests in progress
  migration  \* the Migrations table, the schema and the migrate run

vars == <<phase, types, regLog, users, store, autoInc, res, form, verdict, inflight, hook, disk,
  files, uploads, blocks, signups, migration>>

(***************************************************************************)
(* NodeRegistry.                                                           *)
(***************************************************************************)
\* a property key that is a canonical array index: such keys are enumerated
\* first, in ascending numeric order, before all other string keys (keys of
\* ten digits up to 2^32 - 2 are indices too; no type name here is that long)
IsArrayIndex(key) ==
  /\ AllDigits(key)
  /\ (Len(key) = 1 \/ key[1] # "0")
  /\ Len(key) <= 9

\* mutant: a key that is already set keeps its value
SetProperty_KeepFirst(obj, key, value) ==
  IF \E i \in 1..Len(obj) : obj[i].type = key THEN obj ELSE Append(obj, value)

\* obj[key] = value on an object held as the sequence of its own properties
SetProperty(obj, key, value) ==
  IF \E i \in 1..Len(obj) : obj[i].type = key
    THEN [i \in 1..Len(obj) |-> IF obj[i].type = key THEN value ELSE obj[i]]
  ELSE IF IsArrayIndex(key)
    THEN LET before == {i \in 1..Len(obj) :
                          IsArrayIndex(obj[i].type) /\ parseInt(obj[i].type) < parseInt(key)}
             n == Cardinality(before)
         IN SubSeq(obj, 1, n) \o <<value>> \o SubSeq(obj, n + 1, Len(obj))
  ELSE Append(obj, value)

\* NodeRegistry.register(type, settings, fields)(constructor); the constructor
\* is the function value JFun(name of the model class)
register(obj, type, settings, fields, constructor) ==
  SetProperty(obj, type,
              [type |-> type, Model |-> constructor, settings |-> settings,
               fields |-> fields])

\* the property names the object literal {} inherits from Object.prototype;
\* one stands for all of them (toString, valueOf, hasOwnProperty, ...)
PrototypeKeys == {S_constructor}

\* the type is an own property of this._types
HasOwnType(type) == \E i \in 1..Len(types) : types[i].type = type

\* `type in this._types`: own and inherited properties
isTypeRegistered(type) == HasOwnType(type) \/ type \in PrototypeKeys

\* this._types[type]: the entry, an inherited function of Object.prototype,
\* or undefined
getTypeInfo(type) ==
  IF HasOwnType(type)
    THEN types[CHOOSE i \in 1..Len(types) : types[i].type = type]
  ELSE IF type \in PrototypeKeys THEN JFun("Object")
  ELSE JUndefined

\* this._types[type]?.Model; an inherited function has no such property
getModelByType(type) ==
  IF HasOwnType(type) THEN getTypeInfo(type).Model ELSE JUndefined

\* this._types[type]?.fields
getFieldsByType(type) ==
  IF HasOwnType(type) THEN FieldList(getTypeInfo(type).fields) ELSE JUndefined

\* Object.values(this._types)
getAllTypeInfos == types

\* fields?.find(field => field.type === 'slug')
getSlugField(type) ==
  LET fields == getFieldsByType(type) IN
  IF ~HasOwnType(type) THEN JUndefined
  ELSE IF \E i \in 1..Len(fields) : fields[i].type = "slug"
    THEN fields[CHOOSE i \in 1..Len(fields) :
                  /\ fields[i].type = "slug"
                  /\ \A j \in 1..(i - 1) : fields[j].type # "slug"]
  ELSE JUndefined

\* mutant: the subpath is left out of the url
generateNodeUrl_NoSubpath(nodeType, nodeInstance) ==
  LET typeInfo == getTypeInfo(nodeType)
      slugField == getSlugField(nodeType)
  IN
  IF typeInfo = JUndefined THEN JUndefined
  ELSE IF slugField = JUndefined THEN JUndefined
  ELSE LET slugValue == Prop(nodeInstance, slugField.name) IN
       IF ~Truthy(slugValue) THEN JUndefined
       ELSE JStr(S_slash \o slugValue.v)

\* NodeRegistry.generateNodeUrl(nodeType, nodeInstance)
generateNodeUrl(nodeType, nodeInstance) ==
  LET typeInfo == getTypeInfo(nodeType)
      slugField == getSlugField(nodeType)
  IN
  IF typeInfo = JUndefined THEN JUndefined
  ELSE IF slugField = JUndefined THEN JUndefined
  ELSE LET slugValue == Prop(nodeInstance, slugField.name) IN
       IF ~Truthy(slugValue) THEN JUndefined
       ELSE IF ~Truthy(typeInfo.settings.subpath)
         THEN JStr(S_slash \o slugValue.v)
       ELSE JStr(S_slash \o typeInfo.settings.subpath.v \o S_slash \o slugValue.v)

(***************************************************************************)
(* The node tables (Page.init, Article.init) and the Sequelize calls the   *)
(* controllers make on them.                                               *)
(***************************************************************************)
Models == {"Page", "Article"}

\* Model.rawAttributes, without the createdAt / updatedAt timestamps
rawAttributes(Model) ==
  IF Model = "Page" THEN {"id", "slug", "title", "content", "authorId"}
  ELSE {"id", "slug", "title", "excerpt", "content", "authorId"}

\* columns declared allowNull: false
NotNullColumns(Model) == {"title", "content"}

\* columns declared unique: true
UniqueColumns(Model) == {"slug"}

\* the number MySQL compares a primary-key argument as: a number itself, the
\* leading digits of a string (0 when it has none)
RECURSIVE LeadingDigits(_)
LeadingDigits(s) ==
  IF Len(s) = 0 \/ s[1] \notin Digits THEN <<>>
  ELSE <<s[1]>> \o LeadingDigits(Tail(s))

PkNumber(key) ==
  IF key.t = "number" THEN key.v
  ELSE IF key.t = "string" THEN parseInt(LeadingDigits(key.v))
  ELSE 0

\* Model.findByPk(key): the row or JNull
findByPk(Model, key) ==
  IF \E r \in store[Model] : r.id.v = PkNumber(key)
    THEN CHOOSE r \in store[Model] : r.id.v = PkNumber(key)
    ELSE JNull

\* mutant: the where clause is dropped, the first row of the table is returned
findOne_NoWhere(Model, column, value) ==
  LET found == store[Model] IN
  IF found = {} THEN JNull
  ELSE CHOOSE r \in found : \A q \in found : r.id.v <= q.id.v

\* Model.findOne({ where: { [column]: value } }): the first matching row or JNull
findOne(Model, column, value) ==
  LET found == {r \in store[Model] : r[column] = value} IN
  IF found = {} THEN JNull
  ELSE CHOOSE r \in found : \A q \in found : r.id.v <= q.id.v

\* mutant: the unique index is not there
ViolatesConstraint_NotNullOnly(Model, row, others) ==
  \/ \E c \in NotNullColumns(Model) : row[c].t \in {"null", "undefined"}
  \/ \E r \in others : r.id = row.id

\* the row an INSERT or UPDATE would write violates a constraint of the table
ViolatesConstraint(Model, row, others) ==
  \/ \E c \in NotNullColumns(Model) : row[c].t \in {"null", "undefined"}
  \/ \E c \in UniqueColumns(Model) :
       row[c].t # "null" /\ \E r \in others : r[c] = row[c]
  \/ \E r \in others : r.id = row.id

\* Model.create(values): only attributes of the model are written, the id is
\* the AUTO_INCREMENT value unless the values carry one
create(Model, values) ==
  LET id == IF Prop(values, "id").t = "number" THEN values["id"].v ELSE autoInc[Model]
      row == [c \in rawAttributes(Model) |->
                IF c = "id" THEN JNum(id)
                ELSE IF Prop(values, c).t = "undefined" THEN JNull
                ELSE values[c]]
  IN
  IF ViolatesConstraint(Model, row, store[Model])
    THEN [threw |-> TRUE, node |-> JNull, store |-> store, autoInc |-> autoInc]
    ELSE [threw |-> FALSE, node |-> row,
          store |-> [store EXCEPT ![Model] = @ \cup {row}],
          autoInc |-> [autoInc EXCEPT ![Model] = IF id >= @ THEN id + 1 ELSE @]]

\* mutant: the write is refused when the row is no longer the one read
update_IfUnmodified(Model, stored, node, values) ==
  LET written == {c \in rawAttributes(Model) \ {"id"} : Prop(values, c).t # "undefined"}
      instance == [c \in rawAttributes(Model) |-> IF c \in written THEN values[c] ELSE node[c]]
      current == {r \in store[Model] : r.id = stored.id}
      others == store[Model] \ current
      rows == {[c \in rawAttributes(Model) |-> IF c \in written THEN values[c] ELSE r[c]] :
                 r \in current}
  IN
  IF current # {stored} \/ \E row \in rows : ViolatesConstraint(Model, row, others)
    THEN [threw |-> TRUE, node |-> instance, store |-> store]
    ELSE [threw |-> FALSE, node |-> instance,
          store |-> [store EXCEPT ![Model] = others \cup rows]]

\* node.update(values) on `node`, the instance as the save hooks left it, where
\* `stored` is the row it was read from.  The values are set on the instance
\* (never its primary key) and UPDATE ... SET <the columns of the values>
\* WHERE id = <the instance's id> is run: the other columns of the row keep
\* what the table holds, and no row is written when none has that id any more
update(Model, stored, node, values) ==
  LET written == {c \in rawAttributes(Model) \ {"id"} : Prop(values, c).t # "undefined"}
      instance == [c \in rawAttributes(Model) |-> IF c \in written THEN values[c] ELSE node[c]]
      current == {r \in store[Model] : r.id = stored.id}
      others == store[Model] \ current
      rows == {[c \in rawAttributes(Model) |-> IF c \in written THEN values[c] ELSE r[c]] :
                 r \in current}
  IN
  IF \E row \in rows : ViolatesConstraint(Model, row, others)
    THEN [threw |-> TRUE, node |-> instance, store |-> store]
    ELSE [threw |-> FALSE, node |-> instance,
          store |-> [store EXCEPT ![Model] = others \cup rows]]

\* mutant: the destroy is not restricted to the instance
destroy_All(Model, node) == [store EXCEPT ![Model] = {}]

\* node.destroy()
destroy(Model, node) == [store EXCEPT ![Model] = @ \ {node}]

(***************************************************************************)
(* AuthController.authenticateToken.  A credential is the Authorization    *)
(* header: none, a token jwt.verify rejects, or a token for a user id.     *)
(***************************************************************************)
Response(op, status, message) ==
  [op |-> op, status |-> status, success |-> status \in {200, 201},
   message |-> message, data |-> JUndefined, errors |-> <<>>, nodeType |-> JUndefined]

NoResponse == Response("none", 0, "")

\* mutant: the isActive flag of the user is not looked at
authenticateToken_IgnoresActive(op, cred) ==
  IF cred.kind = "none"
    THEN [next |-> FALSE, user |-> JNull, res |-> Response(op, 401, "Access token required")]
  ELSE IF cred.kind = "bad"
    THEN [next |-> FALSE, user |-> JNull, res |-> Response(op, 401, "Invalid token")]
  ELSE IF cred.userId \notin DOMAIN users
    THEN [next |-> FALSE, user |-> JNull,
          res |-> Response(op, 401, "Invalid token or user not active")]
  ELSE [next |-> TRUE,
        user |-> [id |-> cred.userId, role |-> users[cred.userId].role],
        res |-> Response(op, 200, "")]

authenticateToken(op, cred) ==
  IF cred.kind = "none"
    THEN [next |-> FALSE, user |-> JNull, res |-> Response(op, 401, "Access token required")]
  ELSE IF cred.kind = "bad"
    THEN [next |-> FALSE, user |-> JNull, res |-> Response(op, 401, "Invalid token")]
  ELSE IF cred.userId \notin DOMAIN users \/ ~users[cred.userId].isActive
    THEN [next |-> FALSE, user |-> JNull,
          res |-> Response(op, 401, "Invalid token or user not active")]
  ELSE [next |-> TRUE,
        user |-> [id |-> cred.userId, role |-> users[cred.userId].role],
        res |-> Response(op, 200, "")]

\* User.isAdmin
isAdmin(user) == user.role = "admin"

(***************************************************************************)
(* NodeBuilderController: the generic CRUD engine.  Each handler is a      *)
(* function of the request and the current state; it yields the response   *)
(* and the tables as the request leaves them.                              *)
(***************************************************************************)
Outcome(r, st, ai) == [res |-> r, store |-> st, autoInc |-> ai]

\* no table is touched
Reply(r) == Outcome(r, store, autoInc)

\* router.post('/types/:type/nodes')
CreateNode(cred, type, nodeData) ==
  LET auth == authenticateToken("create", cred) IN
  IF ~auth.next THEN Reply(auth.res)
  ELSE IF ~isAdmin(auth.user) THEN Reply(Response("create", 403, "Admin access required"))
  ELSE IF ~isTypeRegistered(type)
    THEN Reply(Response("create", 404, "Node type not found"))
  ELSE IF ~Truthy(getModelByType(type))
    THEN Reply(Response("create", 404, "Model for type not found"))
  ELSE
    LET Model == getModelByType(type).v
        typeInfo == getTypeInfo(type)
        validationResult == validateNodeData(nodeData, FieldList(typeInfo.fields))
    IN
    IF ~validationResult.isValid
      THEN Reply([Response("create", 400, "Validation failed")
                    EXCEPT !.errors = validationResult.errors])
    ELSE
      LET saved == processNodeForSave(nodeData, FieldList(typeInfo.fields), JUndefined) IN
      IF saved.threw THEN Reply(Response("create", 500, "Internal server error"))
      ELSE
        LET processedData ==
              IF "authorId" \in rawAttributes(Model)
                THEN [k \in DOMAIN saved.data \cup {"authorId"} |->
                        IF k = "authorId" THEN JNum(auth.user.id) ELSE saved.data[k]]
                ELSE saved.data
            created == create(Model, processedData)
        IN
        IF created.threw THEN Reply(Response("create", 500, "Internal server error"))
        ELSE Outcome([Response("create", 201, "Node created successfully")
                        EXCEPT !.data = created.node],
                     created.store, created.autoInc)

\* router.put('/types/:type/nodes/:id') up to and including findByPk: either
\* the response that ends the request, or the model class and the instance read
UpdateRead(cred, type, id) ==
  LET auth == authenticateToken("update", cred)
      stop(r) == [proceed |-> FALSE, res |-> r, Model |-> "", node |-> JNull]
  IN
  IF ~auth.next THEN stop(auth.res)
  ELSE IF ~isAdmin(auth.user) THEN stop(Response("update", 403, "Admin access required"))
  ELSE IF ~isTypeRegistered(type) THEN stop(Response("update", 404, "Node type not found"))
  ELSE IF ~Truthy(getModelByType(type))
    THEN stop(Response("update", 404, "Model for type not found"))
  ELSE
    LET Model == getModelByType(type).v
        node == findByPk(Model, JStr(id))
    IN
    IF node = JNull THEN stop(Response("update", 404, "Node not found"))
    ELSE [proceed |-> TRUE, res |-> NoResponse, Model |-> Model, node |-> node]

\* the rest of the handler, run with the instance read earlier: validation,
\* save hooks, node.update
UpdateWrite(type, nodeData, Model, node) ==
  LET typeInfo == getTypeInfo(type)
      validationResult == validateNodeData(nodeData, FieldList(typeInfo.fields))
  IN
  IF ~validationResult.isValid
    THEN Reply([Response("update", 400, "Validation failed")
                  EXCEPT !.errors = validationResult.errors])
  ELSE
    LET saved == processNodeForSave(nodeData, FieldList(typeInfo.fields), node) IN
    IF saved.threw THEN Reply(Response("update", 500, "Internal server error"))
    ELSE
      LET updated == update(Model, node, saved.instance, saved.data) IN
      IF updated.threw THEN Reply(Response("update", 500, "Internal server error"))
      ELSE Outcome([Response("update", 200, "Node updated successfully")
                      EXCEPT !.data = updated.node],
                   updated.store, autoInc)

\* router.put('/types/:type/nodes/:id')
UpdateNode(cred, type, id, nodeData) ==
  LET read == UpdateRead(cred, type, id) IN
  IF ~read.proceed THEN Reply(read.res)
  ELSE UpdateWrite(type, nodeData, read.Model, read.node)

\* router.delete('/types/:type/nodes/:id')
DeleteNode(cred, type, id) ==
  LET auth == authenticateToken("delete", cred) IN
  IF ~auth.next THEN Reply(auth.res)
  ELSE IF ~isAdmin(auth.user) THEN Reply(Response("delete", 403, "Admin access required"))
  ELSE IF ~isTypeRegistered(type)
    THEN Reply(Response("delete", 404, "Node type not found"))
  ELSE IF ~Truthy(getModelByType(type))
    THEN Reply(Response("delete", 404, "Model for type not found"))
  ELSE
    LET Model == getModelByType(type).v
        node == findByPk(Model, JStr(id))
    IN
    IF node = JNull THEN Reply(Response("delete", 404, "Node not found"))
    ELSE Outcome(Response("delete", 200, "Node deleted successfully"),
                 destroy(Model, node), autoInc)

\* router.get('/types/:type/fields'): type, settings and fields of the entry,
\* each undefined when the entry has no such property
GetFields(cred, type) ==
  LET auth == authenticateToken("fields", cred) IN
  IF ~auth.next THEN auth.res
  ELSE IF ~isAdmin(auth.user) THEN Response("fields", 403, "Admin access required")
  ELSE IF ~isTypeRegistered(type) THEN Response("fields", 404, "Node type not found")
  ELSE
    LET typeInfo == getTypeInfo(type) IN
    [Response("fields", 200, "")
       EXCEPT !.data = IF HasOwnType(type)
                         THEN [type |-> JStr(typeInfo.type), settings |-> typeInfo.settings,
                               fields |-> JStr(<<typeInfo.fields>>)]
                         ELSE [type |-> JUndefined, settings |-> JUndefined,
                               fields |-> JUndefined]]

\* router.get('/types/:type/nodes/:id') of the CRUD engine
GetNode(cred, type, id) ==
  LET auth == authenticateToken("get", cred) IN
  IF ~auth.next THEN auth.res
  ELSE IF ~isAdmin(auth.user) THEN Response("get", 403, "Admin access required")
  ELSE IF ~isTypeRegistered(type) THEN Response("get", 404, "Node type not found")
  ELSE IF ~Truthy(getModelByType(type)) THEN Response("get", 404, "Model for type not found")
  ELSE
    LET Model == getModelByType(type).v
        node == findByPk(Model, JStr(id))
    IN
    IF node = JNull THEN Response("get", 404, "Node not found")
    ELSE [Response("get", 200, "")
            EXCEPT !.data = processNodeForDisplay(node, FieldList(getTypeInfo(type).fields))]

(***************************************************************************)
(* NodeController: the public read routes and the path resolver.           *)
(***************************************************************************)
\* mutant: the slug field is tried before the id
findNodeBySlug_SlugFirst(nodeType, slug) ==
  LET Node == getModelByType(nodeType)
      nodeById == IF AllDigits(slug) THEN findByPk(Node.v, JNum(parseInt(slug))) ELSE JNull
      slugField == getSlugField(nodeType)
      nodeBySlug == IF slugField # JUndefined
                      THEN findOne(Node.v, slugField.name, JStr(slug)) ELSE JNull
  IN
  IF ~Truthy(Node) THEN JNull
  ELSE IF nodeBySlug # JNull THEN nodeBySlug
  ELSE nodeById

\* findNodeBySlug(nodeType, slug)
findNodeBySlug(nodeType, slug) ==
  LET Node == getModelByType(nodeType)
      nodeById == IF AllDigits(slug) THEN findByPk(Node.v, JNum(parseInt(slug))) ELSE JNull
      slugField == getSlugField(nodeType)
  IN
  IF ~Truthy(Node) THEN JNull
  ELSE IF nodeById # JNull THEN nodeById
  ELSE IF slugField # JUndefined THEN findOne(Node.v, slugField.name, JStr(slug))
  ELSE JNull

\* mutant: only the first segment is compared with the subpath
TypeLookup_FirstSegment(nodeTypeInfo, pathSegments) ==
  LET subpath == nodeTypeInfo.settings.subpath IN
  IF Truthy(subpath)
    THEN IF Len(pathSegments) >= 1 /\ pathSegments[1] = subpath.v
           THEN findNodeBySlug(nodeTypeInfo.type, pathSegments[Len(pathSegments)])
           ELSE JNull
    ELSE findNodeBySlug(nodeTypeInfo.type, join(pathSegments, S_slash))

\* the node lookup one registered type contributes to a path: JNull when the
\* path does not have the shape of the type or no instance is found
TypeLookup(nodeTypeInfo, pathSegments) ==
  LET subpath == nodeTypeInfo.settings.subpath IN
  IF Truthy(subpath)
    THEN IF Len(pathSegments) >= 2
            /\ join(SubSeq(pathSegments, 1, Len(pathSegments) - 1), S_slash) = subpath.v
           THEN findNodeBySlug(nodeTypeInfo.type, pathSegments[Len(pathSegments)])
           ELSE JNull
    ELSE findNodeBySlug(nodeTypeInfo.type, join(pathSegments, S_slash))

\* the for loop of resolveNodeByPath over the registered types
RECURSIVE ResolveLoop(_, _)
ResolveLoop(registeredTypes, pathSegments) ==
  IF Len(registeredTypes) = 0 THEN [foundNode |-> JNull, matchedNodeType |-> JNull]
  ELSE LET foundNode == TypeLookup(registeredTypes[1], pathSegments) IN
       IF foundNode # JNull
         THEN [foundNode |-> foundNode, matchedNodeType |-> JStr(registeredTypes[1].type)]
         ELSE ResolveLoop(Tail(registeredTypes), pathSegments)

\* NodeController.resolveNodeByPath(pathSegments) with the route that answers:
\* a WebError it throws becomes the status and message of the response
resolveNodeByPath(pathSegments) ==
  IF Len(pathSegments) < 1 THEN Response("resolve", 404, "Invalid path")
  ELSE LET found == ResolveLoop(getAllTypeInfos, pathSegments) IN
       IF found.foundNode = JNull THEN Response("resolve", 404, "Node not found")
       ELSE [Response("resolve", 200, "")
               EXCEPT !.data = found.foundNode, !.nodeType = found.matchedNodeType]

\* the lookup shared by router.get("/:nodeType/:id") and "/:nodeType/:id/url"
FindInstance(nodeType, id) ==
  LET Node == getModelByType(nodeType)
      byPk == findByPk(Node.v, JStr(id))
      slugField == getSlugField(nodeType)
  IN
  IF byPk # JNull THEN byPk
  ELSE IF slugField # JUndefined THEN findOne(Node.v, slugField.name, JStr(id))
  ELSE JNull

\* router.get("/:nodeType/:id") of NodeController
GetNodeInstance(nodeType, id) ==
  IF ~Truthy(getModelByType(nodeType))
    THEN Response("nodeGet", 404, "Node type not found")
  ELSE IF FindInstance(nodeType, id) = JNull
    THEN Response("nodeGet", 404, "Node instance not found")
  ELSE [Response("nodeGet", 200, "") EXCEPT !.data = FindInstance(nodeType, id)]

\* router.get("/:nodeType/:id/url") of NodeController
GetNodeUrl(nodeType, id) ==
  IF ~Truthy(getModelByType(nodeType))
    THEN Response("nodeUrl", 404, "Node type not found")
  ELSE IF FindInstance(nodeType, id) = JNull
    THEN Response("nodeUrl", 404, "Node instance not found")
  ELSE LET nodeUrl == generateNodeUrl(nodeType, FindInstance(nodeType, id)) IN
       IF ~Truthy(nodeUrl) THEN Response("nodeUrl", 500, "Failed to generate node URL")
       ELSE [Response("nodeUrl", 200, "") EXCEPT !.data = nodeUrl]

(***************************************************************************)
(* The node types the scenarios register.  "page" and "article" are the    *)
(* declarations of models/nodes; the others re-use their model classes to  *)
(* exercise a duplicate name, a type without slug field and a type name    *)
(* that is an array index.                                                 *)
(***************************************************************************)
NoSubpath == [subpath |-> JUndefined]

Subpath(p) == [subpath |-> JStr(p)]

Declaration(type, Model, settings, fields) ==
  [type |-> type, Model |-> JFun(Model), settings |-> settings, fields |-> fields]

Catalog ==
  { Declaration(S_page, "Page", NoSubpath, "PageFields"),
    Declaration(S_article, "Article", Subpath(S_blog), "ArticleFields"),
    Declaration(S_7, "Article", NoSubpath, "ArticleFields"),
    Declaration(S_page, "Article", Subpath(S_blog), "PlainFields") }

(***************************************************************************)
(* The requests of the scenarios.                                          *)
(***************************************************************************)
Credential(kind, userId) == [kind |-> kind, userId |-> userId]

\* user 1 is an active admin, 2 an active plain user, 3 a deactivated admin,
\* 4 does not exist
Creds ==
  { Credential("none", 0), Credential("bad", 0), Credential("jwt", 1),
    Credential("jwt", 2), Credential("jwt", 3), Credential("jwt", 4) }

\* the credentials the requests of the behaviours carry
SentCreds ==
  { Credential("none", 0), Credential("jwt", 1), Credential("jwt", 2),
    Credential("jwt", 3) }

\* at most MaxRegs of these names are registered, so one is always unknown
ReqTypes == {S_page, S_article, S_7}

ReqIds == {S_1, S_2, S_blog}

\* fifty characters, the least an article content may have
LongText == [i \in 1..50 |-> "x"]

Body(slug) ==
  [slug |-> JStr(slug), title |-> JStr(S_t), content |-> JStr(LongText)]

\* no title and a slug outside the pattern: two violations
BadBody == [slug |-> JStr(S_Blog), content |-> JStr(LongText)]

Bodies == {Body(S_2), Body(S_blog), BadBody}

Paths ==
  { <<>>, <<S_blog>>, <<S_2>>, <<S_1>>, <<S_blog, S_blog>>, <<S_blog, S_2>>,
    <<S_blog, S_blog, S_2>> }

(***************************************************************************)
(* Initial state and actions.                                              *)
(***************************************************************************)
NoForm == [fields |-> <<>>, data |-> [f |-> JUndefined, g |-> JUndefined]]

\* validateNodeData has not run (done) and neither has validateForm (checked)
NoVerdict ==
  [done |-> FALSE, isValid |-> FALSE, errors |-> <<>>, checked |-> FALSE, accepted |-> FALSE]

\* the requests that may be in progress at the same time
Slots == 1..MaxSlots

IdleSlot == [stage |-> "idle", type |-> <<>>, nodeData |-> EmptyObject, Model |-> "",
             node |-> JNull]

NoInflight == [s \in Slots |-> IdleSlot]

NoHook ==
  [instance |-> EmptyObject, fields |-> <<>>, done |-> FALSE, threw |-> FALSE,
   out |-> EmptyObject]

\* the upload requests
Uploads == 1..MaxUploads

NoUploads ==
  [u \in Uploads |-> [stage |-> "none", status |-> 0, path |-> 0, unlinkError |-> FALSE]]

\* no register request is in progress
Signups == 1..MaxSlots

IdleSignup == [stage |-> "idle", username |-> "", email |-> "", role |-> ""]

NoSignups == [s \in Signups |-> IdleSignup]

\* no migration is recorded or applied and no migrate run has started
\* recorded: the rows of the Migrations table, in the order of their createdAt
NoMigration ==
  [recorded |-> <<>>, schema |-> {}, stage |-> "idle", existing |-> {}, applying |-> 0,
   newMigrations |-> <<>>]

Init ==
  /\ phase = "boot"
  /\ types = <<>>
  /\ regLog = <<>>
  /\ users = [u \in {1, 2, 3} |->
                [role |-> IF u = 2 THEN "user" ELSE "admin", isActive |-> u # 3]]
  /\ store = [m \in Models |-> {}]
  /\ autoInc = [m \in Models |-> 1]
  /\ res = NoResponse
  /\ form = NoForm
  /\ verdict = NoVerdict
  /\ inflight = NoInflight
  /\ hook = NoHook
  /\ disk = {}
  /\ files = {}
  /\ uploads = NoUploads
  /\ blocks = <<>>
  /\ signups = NoSignups
  /\ migration = NoMigration

\* a model module is imported: its decorator registers the type
Register(d) ==
  /\ Len(regLog) < MaxRegs
  /\ types' = register(types, d.type, d.settings, d.fields, d.Model)
  /\ regLog' = Append(regLog, d)
  /\ UNCHANGED <<phase, users, store, autoInc, res, form, verdict, inflight, hook, disk, files,
                 uploads, blocks, signups, migration>>

\* startServer(): the HTTP server listens
StartServer ==
  /\ phase = "boot"
  /\ phase' = "serving"
  /\ UNCHANGED <<types, regLog, users, store, autoInc, res, form, verdict, inflight, hook,
                 disk, files, uploads, blocks, signups, migration>>

\* rows inserted so far
Inserted == (autoInc["Page"] - 1) + (autoInc["Article"] - 1)

Apply(outcome) ==
  /\ res' = outcome.res
  /\ store' = outcome.store
  /\ autoInc' = outcome.autoInc
  /\ UNCHANGED <<phase, types, regLog, users, form, verdict, inflight, hook, disk, files,
                 uploads, blocks, signups, migration>>

Create(cred, type, nodeData) ==
  /\ phase = "serving"
  /\ Inserted < MaxCreates
  /\ Apply(CreateNode(cred, type, nodeData))

Update(cred, type, id, nodeData) ==
  /\ phase = "serving"
  /\ Apply(UpdateNode(cred, type, id, nodeData))

Delete(cred, type, id) ==
  /\ phase = "serving"
  /\ Apply(DeleteNode(cred, type, id))

Fields(cred, type) ==
  /\ phase = "serving"
  /\ Apply(Reply(GetFields(cred, type)))

Get(cred, type, id) ==
  /\ phase = "serving"
  /\ Apply(Reply(GetNode(cred, type, id)))

NodeGet(type, id) ==
  /\ phase = "serving"
  /\ Apply(Reply(GetNodeInstance(type, id)))

NodeUrl(type, id) ==
  /\ phase = "serving"
  /\ Apply(Reply(GetNodeUrl(type, id)))

Resolve(path) ==
  /\ phase = "serving"
  /\ Apply(Reply(resolveNodeByPath(path)))

Next ==
  \/ \E d \in Catalog : Register(d)
  \/ StartServer
  \/ \E cred \in SentCreds, type \in ReqTypes, nodeData \in Bodies : Create(cred, type, nodeData)
  \/ \E cred \in SentCreds, type \in ReqTypes, id \in ReqIds, nodeData \in Bodies :
       Update(cred, type, id, nodeData)
  \/ \E cred \in SentCreds, type \in ReqTypes, id \in ReqIds : Delete(cred, type, id)
  \/ \E cred \in SentCreds, type \in ReqTypes \cup PrototypeKeys : Fields(cred, type)
  \/ \E cred \in SentCreds, type \in ReqTypes, id \in ReqIds : Get(cred, type, id)
  \/ \E type \in ReqTypes, id \in ReqIds : NodeGet(type, id)
  \/ \E type \in ReqTypes, id \in ReqIds : NodeUrl(type, id)
  \/ \E path \in Paths : Resolve(path)

Spec == Init /\ [][Next]_vars

(***************************************************************************)
(* Requests in progress at the same time.  A handler runs until its next   *)
(* await; the update handler awaits findByPk and later node.update, and    *)
(* other requests run in between.  The create handler reads no table       *)
(* before its INSERT and the registry is complete: page, article and a     *)
(* type whose save hook throws, which shares the table of page.            *)
(***************************************************************************)
ConcurrentCatalog ==
  << Declaration(S_page, "Page", NoSubpath, "PageFields"),
     Declaration(S_article, "Article", Subpath(S_blog), "ArticleFields"),
     Declaration(S_memo, "Page", NoSubpath, "MemoFields") >>

RECURSIVE RegisterAll(_, _)
RegisterAll(obj, decls) ==
  IF Len(decls) = 0 THEN obj
  ELSE RegisterAll(register(obj, decls[1].type, decls[1].settings, decls[1].fields,
                            decls[1].Model),
                   Tail(decls))

ConcurrentTypes == {S_page, S_article, S_memo}

\* the requests come from the active admin
Admin == Credential("jwt", 1)

ConcurrentBodies == {Body(S_2), Body(S_blog)}

ConcurrentIds == {S_1, S_2}

InitC ==
  /\ phase = "serving"
  /\ types = RegisterAll(<<>>, ConcurrentCatalog)
  /\ regLog = ConcurrentCatalog
  /\ users = [u \in {1, 2, 3} |->
                [role |-> IF u = 2 THEN "user" ELSE "admin", isActive |-> u # 3]]
  /\ store = [m \in Models |-> {}]
  /\ autoInc = [m \in Models |-> 1]
  /\ res = NoResponse
  /\ form = NoForm
  /\ verdict = NoVerdict
  /\ inflight = NoInflight
  /\ hook = NoHook
  /\ disk = {}
  /\ files = {}
  /\ uploads = NoUploads
  /\ blocks = <<>>
  /\ signups = NoSignups
  /\ migration = NoMigration

\* the update handler runs up to the result of findByPk
BeginUpdate(s, cred, type, id, nodeData) ==
  /\ inflight[s].stage = "idle"
  /\ LET read == UpdateRead(cred, type, id) IN
     IF read.proceed
       THEN /\ inflight' = [inflight EXCEPT ![s] =
                              [stage |-> "read", type |-> type, nodeData |-> nodeData,
                               Model |-> read.Model, node |-> read.node]]
            /\ UNCHANGED res
       ELSE /\ res' = read.res
            /\ UNCHANGED inflight
  /\ UNCHANGED <<phase, types, regLog, users, store, autoInc, form, verdict, hook, disk, files,
                 uploads, blocks, signups, migration>>

\* what the rest of the update handler of a slot does to the tables now
Pending(s) ==
  UpdateWrite(inflight[s].type, inflight[s].nodeData, inflight[s].Model, inflight[s].node)

\* the update handler resumes: validation, save hooks, node.update, response
EndUpdate(s) ==
  /\ inflight[s].stage = "read"
  /\ res' = Pending(s).res
  /\ store' = Pending(s).store
  /\ inflight' = [inflight EXCEPT ![s] = IdleSlot]
  /\ UNCHANGED <<phase, types, regLog, users, autoInc, form, verdict, hook, disk, files,
                 uploads, blocks, signups, migration>>

NextC ==
  \/ \E type \in ConcurrentTypes, nodeData \in ConcurrentBodies :
       Create(Admin, type, nodeData)
  \/ \E s \in Slots, type \in ConcurrentTypes, id \in ConcurrentIds,
        nodeData \in ConcurrentBodies :
       BeginUpdate(s, Admin, type, id, nodeData)
  \/ \E s \in Slots : EndUpdate(s)
  \/ \E type \in ConcurrentTypes, id \in ConcurrentIds : Delete(Admin, type, id)

SpecC == InitC /\ [][NextC]_vars

(***************************************************************************)
(* processNodeForDisplay on its own: the initial state draws an instance   *)
(* and a field list whose load hooks succeed, return nothing or throw.     *)
(***************************************************************************)
\* an instance as toJSON() gives it
Row(id, slug, content) ==
  [id |-> JNum(id), slug |-> slug, title |-> JStr(S_t), content |-> content,
   authorId |-> JNum(1)]

HookInstances ==
  { Row(1, JStr(S_2), JStr(<<"[", "]">>)),
    Row(1, JStr(S_blog), JStr(<<"\"", "a", "\"">>)),
    Row(2, JStr(S_blog), JStr(<<"7">>)),
    Row(2, JNull, JStr(<<"{">>)) }

LoadHooks ==
  {JUndefined, JFun("jsonParse"), JFun("slugLength"), JFun("nothing"), JFun("throws")}

HookFieldLists ==
  {<< [FieldBase("slug", "slug") EXCEPT !.load = h[1]],
      [FieldBase("title", "text") EXCEPT !.load = h[2]],
      [FieldBase("content", "blocks") EXCEPT !.load = h[3]] >> :
     h \in LoadHooks \X LoadHooks \X LoadHooks}

InitH ==
  /\ phase = "serving"
  /\ types = <<>>
  /\ regLog = <<>>
  /\ users = [u \in {1, 2, 3} |->
                [role |-> IF u = 2 THEN "user" ELSE "admin", isActive |-> u # 3]]
  /\ store = [m \in Models |-> {}]
  /\ autoInc = [m \in Models |-> 1]
  /\ res = NoResponse
  /\ form = NoForm
  /\ verdict = NoVerdict
  /\ inflight = NoInflight
  /\ hook \in {[NoHook EXCEPT !.instance = i, !.fields = f] :
                 i \in HookInstances, f \in HookFieldLists}
  /\ disk = {}
  /\ files = {}
  /\ uploads = NoUploads
  /\ blocks = <<>>
  /\ signups = NoSignups
  /\ migration = NoMigration

Display ==
  /\ ~hook.done
  /\ hook' = [hook EXCEPT !.done = TRUE,
                          !.out = processNodeForDisplay(hook.instance, hook.fields)]
  /\ UNCHANGED <<phase, types, regLog, users, store, autoInc, res, form, verdict, inflight,
                 disk, files, uploads, blocks, signups, migration>>

NextH == Display

SpecH == InitH /\ [][NextH]_vars

(***************************************************************************)
(* processNodeForSave on its own: the initial state draws a request body,  *)
(* a field list and the owner instance (none on Create).                   *)
(***************************************************************************)
\* slug values as a request carries them, each with the text the slug
\* convention makes of it
SlugSamples ==
  { [in |-> <<" ", "M", "y", "-", "P", " ">>, out |-> <<"m", "y", "-", "p">>],
    [in |-> <<"A", " ", "b">>, out |-> <<"a", " ", "b">>],
    [in |-> <<" ", " ">>, out |-> <<>>],
    [in |-> <<>>, out |-> <<>>],
    [in |-> S_Blog, out |-> S_blog],
    [in |-> S_2, out |-> S_2] }

\* a body: each key is present or absent
BodyOf(slug, title, content, views) ==
  LET keys == {"slug"} \cup (IF title.t = "undefined" THEN {} ELSE {"title"})
                \cup (IF content.t = "undefined" THEN {} ELSE {"content"})
                \cup (IF views.t = "undefined" THEN {} ELSE {"views"})
  IN [k \in keys |->
        CASE k = "slug" -> slug [] k = "title" -> title [] k = "content" -> content
          [] k = "views" -> views]

SaveBodies ==
  { BodyOf(JStr(x.in), title, content, views) :
      x \in SlugSamples, title \in {JUndefined, JStr(S_Blog)},
      content \in {JUndefined, JStr(<<"A", " ">>), JArr(<<>>)},
      views \in {JUndefined, JNum(5)} }

SaveFieldLists ==
  {PageFields, ArticleFields, <<SlugField("trimLower")>>, <<TitleField, SlugField("assignSlug")>>}

InitS ==
  /\ phase = "serving"
  /\ types = <<>>
  /\ regLog = <<>>
  /\ users = [u \in {1, 2, 3} |->
                [role |-> IF u = 2 THEN "user" ELSE "admin", isActive |-> u # 3]]
  /\ store = [m \in Models |-> {}]
  /\ autoInc = [m \in Models |-> 1]
  /\ res = NoResponse
  /\ form \in {[fields |-> f, data |-> d] : f \in SaveFieldLists, d \in SaveBodies}
  /\ verdict = NoVerdict
  /\ inflight = NoInflight
  /\ hook \in {[NoHook EXCEPT !.instance = i, !.fields = form.fields] :
                 i \in {JUndefined, Row(1, JStr(S_2), JStr(<<"[", "]">>))}}
  /\ disk = {}
  /\ files = {}
  /\ uploads = NoUploads
  /\ blocks = <<>>
  /\ signups = NoSignups
  /\ migration = NoMigration

Save ==
  /\ ~hook.done
  /\ LET r == processNodeForSave(form.data, form.fields, hook.instance)
     IN hook' = [hook EXCEPT !.done = TRUE, !.threw = r.threw, !.out = r.data,
                             !.instance = r.instance]
  /\ UNCHANGED <<phase, types, regLog, users, store, autoInc, res, form, verdict, inflight,
                 disk, files, uploads, blocks, signups, migration>>

NextS == Save

SpecS == InitS /\ [][NextS]_vars

(***************************************************************************)
(* Save hooks that set a column of the owner instance and return nothing:  *)
(* the registry holds two types with such a hook, both on the table of     *)
(* page, and the admin creates, updates, reads and deletes their nodes.    *)
(***************************************************************************)
MutatingCatalog ==
  << Declaration(S_note, "Page", NoSubpath, "NoteFields"),
     Declaration(S_card, "Page", NoSubpath, "CardFields") >>

MutatingTypes == {S_note, S_card}

\* a title the hooks change (to 'blog') and two they leave as they are
TitledBody(title) == [title |-> JStr(title), content |-> JStr(LongText)]

MutatingBodies == {TitledBody(S_Blog), TitledBody(S_t), TitledBody(S_2)}

InitM ==
  /\ phase = "serving"
  /\ types = RegisterAll(<<>>, MutatingCatalog)
  /\ regLog = MutatingCatalog
  /\ users = [u \in {1, 2, 3} |->
                [role |-> IF u = 2 THEN "user" ELSE "admin", isActive |-> u # 3]]
  /\ store = [m \in Models |-> {}]
  /\ autoInc = [m \in Models |-> 1]
  /\ res = NoResponse
  /\ form = NoForm
  /\ verdict = NoVerdict
  /\ inflight = NoInflight
  /\ hook = NoHook
  /\ disk = {}
  /\ files = {}
  /\ uploads = NoUploads
  /\ blocks = <<>>
  /\ signups = NoSignups
  /\ migration = NoMigration

NextM ==
  \/ \E type \in MutatingTypes, nodeData \in MutatingBodies : Create(Admin, type, nodeData)
  \/ \E type \in MutatingTypes, id \in ConcurrentIds, nodeData \in MutatingBodies :
       Update(Admin, type, id, nodeData)
  \/ \E type \in MutatingTypes, id \in ConcurrentIds : Delete(Admin, type, id)
  \/ \E type \in MutatingTypes, id \in ConcurrentIds : Get(Admin, type, id)

SpecM == InitM /\ [][NextM]_vars

(***************************************************************************)
(* BlocksFieldRenderer: the editor of a blocks field.  Each operation      *)
(* computes a new list from the list rendered, blockInstances, and hands   *)
(* it to onChange, which makes it the value of the field.                  *)
(***************************************************************************)
\* the ids addBlock may produce: text of the time and a random number, which
\* nothing keeps apart from the ids already in the list
BlockIds == {"block-1", "block-2"}

BlockTypes == {"hero", "text"}

BlockFieldNames == {"heading"}

BlockFieldValues == {JNum(1), JNum(5)}

\* addBlock(blockType), with the id it generated
addBlock(blockInstances, blockType, id) ==
  Append(blockInstances, [id |-> id, type |-> blockType, data |-> EmptyObject])

\* removeBlock(blockId)
removeBlock(blockInstances, blockId) ==
  LET other(block) == block.id # blockId IN SelectSeq(blockInstances, other)

\* blockInstances.findIndex(block => block.id === blockId), from 1; 0 for -1
findIndex(blockInstances, blockId) ==
  IF \E i \in DOMAIN blockInstances : blockInstances[i].id = blockId
    THEN CHOOSE i \in DOMAIN blockInstances :
           /\ blockInstances[i].id = blockId
           /\ \A j \in 1..(i - 1) : blockInstances[j].id # blockId
    ELSE 0

\* the two splice calls of moveBlock
Spliced(blockInstances, currentIndex, newIndex) ==
  LET removed == SubSeq(blockInstances, 1, currentIndex - 1)
                   \o SubSeq(blockInstances, currentIndex + 1, Len(blockInstances))
  IN SubSeq(removed, 1, newIndex - 1) \o <<blockInstances[currentIndex]>>
       \o SubSeq(removed, newIndex, Len(removed))

\* mutant: a block moved beyond an end of the list comes in at the other end
moveBlock_Wrap(blockInstances, blockId, direction) ==
  LET currentIndex == findIndex(blockInstances, blockId)
      newIndex == IF direction = "up" THEN currentIndex - 1 ELSE currentIndex + 1
  IN
  IF currentIndex = 0 THEN blockInstances
  ELSE IF newIndex < 1 THEN Spliced(blockInstances, currentIndex, Len(blockInstances))
  ELSE IF newIndex > Len(blockInstances) THEN Spliced(blockInstances, currentIndex, 1)
  ELSE Spliced(blockInstances, currentIndex, newIndex)

\* moveBlock(blockId, direction); the list itself where it returns early
moveBlock(blockInstances, blockId, direction) ==
  LET currentIndex == findIndex(blockInstances, blockId)
      newIndex == IF direction = "up" THEN currentIndex - 1 ELSE currentIndex + 1
  IN
  IF currentIndex = 0 THEN blockInstances
  ELSE IF newIndex < 1 \/ newIndex > Len(blockInstances) THEN blockInstances
  ELSE Spliced(blockInstances, currentIndex, newIndex)

\* updateBlockField(blockId, fieldName, fieldValue)
updateBlockField(blockInstances, blockId, fieldName, fieldValue) ==
  [i \in DOMAIN blockInstances |->
     IF blockInstances[i].id = blockId
       THEN [blockInstances[i] EXCEPT
               !.data = [k \in DOMAIN @ \cup {fieldName} |->
                           IF k = fieldName THEN fieldValue ELSE @[k]]]
       ELSE blockInstances[i]]

InitB ==
  /\ phase = "serving"
  /\ types = <<>>
  /\ regLog = <<>>
  /\ users = [u \in {1, 2, 3} |->
                [role |-> IF u = 2 THEN "user" ELSE "admin", isActive |-> u # 3]]
  /\ store = [m \in Models |-> {}]
  /\ autoInc = [m \in Models |-> 1]
  /\ res = NoResponse
  /\ form = NoForm
  /\ verdict = NoVerdict
  /\ inflight = NoInflight
  /\ hook = NoHook
  /\ disk = {}
  /\ files = {}
  /\ uploads = NoUploads
  /\ blocks = <<>>
  /\ signups = NoSignups
  /\ migration = NoMigration

OnChange(newInstances) ==
  /\ blocks' = newInstances
  /\ UNCHANGED <<phase, types, regLog, users, store, autoInc, res, form, verdict, inflight,
                 hook, disk, files, uploads, signups, migration>>

AddBlock(blockType, id) ==
  /\ Len(blocks) < MaxBlocks
  /\ OnChange(addBlock(blocks, blockType, id))

\* a block of that id is rendered, with its buttons and its fields
Rendered(blockId) == \E i \in DOMAIN blocks : blocks[i].id = blockId

RemoveBlock(blockId) ==
  /\ Rendered(blockId)
  /\ OnChange(removeBlock(blocks, blockId))

MoveBlock(blockId, direction) ==
  /\ Rendered(blockId)
  /\ OnChange(moveBlock(blocks, blockId, direction))

UpdateBlockField(blockId, fieldName, fieldValue) ==
  /\ Rendered(blockId)
  /\ OnChange(updateBlockField(blocks, blockId, fieldName, fieldValue))

NextB ==
  \/ \E blockType \in BlockTypes, id \in BlockIds : AddBlock(blockType, id)
  \/ \E blockId \in BlockIds : RemoveBlock(blockId)
  \/ \E blockId \in BlockIds, direction \in {"up", "down"} : MoveBlock(blockId, direction)
  \/ \E blockId \in BlockIds, fieldName \in BlockFieldNames, fieldValue \in BlockFieldValues :
       UpdateBlockField(blockId, fieldName, fieldValue)

SpecB == InitB /\ [][NextB]_vars

(***************************************************************************)
(* AuthController POST /register on an empty users table.  The handler     *)
(* awaits findByUsername, findByEmail, count and createUser; other         *)
(* register requests run between these steps.  The bodies are complete,    *)
(* with matching passwords of six characters or more.                      *)
(***************************************************************************)
Usernames == {"ann", "bob"}

Emails == {"ann@x.io", "bob@x.io"}

InitR ==
  /\ phase = "serving"
  /\ types = <<>>
  /\ regLog = <<>>
  /\ users = <<>>
  /\ store = [m \in Models |-> {}]
  /\ autoInc = [m \in Models |-> 1]
  /\ res = NoResponse
  /\ form = NoForm
  /\ verdict = NoVerdict
  /\ inflight = NoInflight
  /\ hook = NoHook
  /\ disk = {}
  /\ files = {}
  /\ uploads = NoUploads
  /\ blocks = <<>>
  /\ signups = NoSignups
  /\ migration = NoMigration

\* what a step of a register request changes: its slot, the users table, the
\* response
Step(s, slot, table, response) ==
  /\ signups' = [signups EXCEPT ![s] = slot]
  /\ users' = table
  /\ res' = response
  /\ UNCHANGED <<phase, types, regLog, store, autoInc, form, verdict, inflight, hook, disk,
                 files, uploads, blocks, migration>>

\* the request arrives, its body passes the checks, findByUsername is called
BeginRegister(s, username, email) ==
  /\ signups[s].stage = "idle"
  /\ Step(s, [stage |-> "findByUsername", username |-> username, email |-> email,
              role |-> ""],
          users, res)

\* User.findByUsername(username) answers
FindByUsername(s) ==
  /\ signups[s].stage = "findByUsername"
  /\ IF \E u \in DOMAIN users : users[u].username = signups[s].username
       THEN Step(s, IdleSignup, users, Response("register", 400, "Username already exists"))
       ELSE Step(s, [signups[s] EXCEPT !.stage = "findByEmail"], users, res)

\* User.findByEmail(email) answers
FindByEmail(s) ==
  /\ signups[s].stage = "findByEmail"
  /\ IF \E u \in DOMAIN users : users[u].email = signups[s].email
       THEN Step(s, IdleSignup, users, Response("register", 400, "Email already registered"))
       ELSE Step(s, [signups[s] EXCEPT !.stage = "count"], users, res)

\* User.count() answers: the role is chosen and createUser is called
Count(s) ==
  /\ signups[s].stage = "count"
  /\ Step(s, [signups[s] EXCEPT !.stage = "createUser",
                                !.role = IF Len(users) = 0 THEN "admin" ELSE "user"],
          users, res)

\* User.createUser answers: the row is inserted, unless its username or email
\* is in the table by now (unique: true), which the catch block answers with 500
CreateUser(s) ==
  /\ signups[s].stage = "createUser"
  /\ IF \E u \in DOMAIN users :
          users[u].username = signups[s].username \/ users[u].email = signups[s].email
       THEN Step(s, IdleSignup, users, Response("register", 500, "Internal server error"))
       ELSE Step(s, IdleSignup,
                 Append(users, [role |-> signups[s].role, isActive |-> TRUE,
                                username |-> signups[s].username,
                                email |-> signups[s].email]),
                 Response("register", 201, "Registration successful"))

NextR ==
  \/ \E s \in Signups, username \in Usernames, email \in Emails :
       BeginRegister(s, username, email)
  \/ \E s \in Signups : FindByUsername(s)
  \/ \E s \in Signups : FindByEmail(s)
  \/ \E s \in Signups : Count(s)
  \/ \E s \in Signups : CreateUser(s)

SpecR == InitR /\ [][NextR]_vars

(***************************************************************************)
(* migrate().  The migration files are numbered in the order of their      *)
(* versions.  A run reads the versions recorded, opens a transaction and   *)
(* takes the files in order: up, then Migration.create.  Whether an up     *)
(* throws is the choice of the database.                                   *)
(***************************************************************************)
Versions == 1..MaxMigrations

\* the first file after `last` whose version the run did not find recorded, or
\* MaxMigrations + 1 when the loop is over
NextPending(existing, last) ==
  IF \E v \in Versions : v > last /\ v \notin existing
    THEN CHOOSE v \in Versions :
           /\ v > last /\ v \notin existing
           /\ \A w \in Versions : (w > last /\ w \notin existing) => v <= w
    ELSE MaxMigrations + 1

\* the versions of the rows of the Migrations table
RecordedVersions(recorded) == {recorded[i] : i \in 1..Len(recorded)}

\* mutant: the rollback also takes back the records the run created
rollbackTransaction_Records(recorded, existing) ==
  SelectSeq(recorded, LAMBDA v : v \in existing)

\* qi.rollbackTransaction(t): undoes the statements run in t.  Neither
\* migration.up(qi) nor Migration.create is given t, so their statements are
\* committed one by one on other connections and the records stay
rollbackTransaction(recorded, existing) == recorded

InitG ==
  /\ phase = "serving"
  /\ types = <<>>
  /\ regLog = <<>>
  /\ users = [u \in {1, 2, 3} |->
                [role |-> IF u = 2 THEN "user" ELSE "admin", isActive |-> u # 3]]
  /\ store = [m \in Models |-> {}]
  /\ autoInc = [m \in Models |-> 1]
  /\ res = NoResponse
  /\ form = NoForm
  /\ verdict = NoVerdict
  /\ inflight = NoInflight
  /\ hook = NoHook
  /\ disk = {}
  /\ files = {}
  /\ uploads = NoUploads
  /\ blocks = <<>>
  /\ signups = NoSignups
  /\ migration = NoMigration

Migrating(next) ==
  /\ migration' = next
  /\ UNCHANGED <<phase, types, regLog, users, store, autoInc, res, form, verdict, inflight,
                 hook, disk, files, uploads, blocks, signups>>

\* migrate() is called: Migration.findAll, sequelize.transaction, and the loop
\* reaches the up of the first pending file, or the commit
BeginMigrate ==
  /\ migration.stage \in {"idle", "done", "failed"}
  /\ Migrating([migration EXCEPT !.stage = "up", !.existing = RecordedVersions(migration.recorded),
                                 !.applying =
                                   NextPending(RecordedVersions(migration.recorded), 0),
                                 !.newMigrations = <<>>])

\* migration.up(qi) returns, or throws: rollback and rethrow
Up(throws) ==
  /\ migration.stage = "up"
  /\ migration.applying <= MaxMigrations
  /\ IF throws
       THEN Migrating([migration EXCEPT
                         !.stage = "failed",
                         !.recorded = rollbackTransaction(migration.recorded,
                                                          migration.existing)])
       ELSE Migrating([migration EXCEPT !.stage = "create",
                                        !.schema = @ \cup {migration.applying}])

\* Migration.create({ version }) returns and the loop goes on
CreateMigration ==
  /\ migration.stage = "create"
  /\ Migrating([migration EXCEPT
                  !.stage = "up",
                  !.recorded = Append(@, migration.applying),
                  !.newMigrations = Append(@, migration.applying),
                  !.applying = NextPending(migration.existing, migration.applying)])

\* the loop is over: qi.commitTransaction(t), the versions applied are returned
Commit ==
  /\ migration.stage = "up"
  /\ migration.applying > MaxMigrations
  /\ Migrating([migration EXCEPT !.stage = "done"])

\* rollbackMigration() with count 1, while no migrate run is in progress: the
\* row created last, the down of its file (which may throw), then destroy
RollbackMigration(throws) ==
  /\ migration.stage \in {"idle", "done", "failed"}
  /\ migration.recorded # <<>>
  /\ IF throws
       THEN Migrating([migration EXCEPT !.stage = "idle"])
       ELSE Migrating([migration EXCEPT
                         !.stage = "idle",
                         !.schema = @ \ {migration.recorded[Len(migration.recorded)]},
                         !.recorded = SubSeq(@, 1, Len(@) - 1)])

NextG ==
  \/ BeginMigrate
  \/ \E throws \in BOOLEAN : RollbackMigration(throws)
  \/ \E throws \in BOOLEAN : Up(throws)
  \/ CreateMigration
  \/ Commit

SpecG == InitG /\ [][NextG]_vars

(***************************************************************************)
(* FileController POST /upload.  multer writes the file to the upload      *)
(* directory before the handler runs; the handler then awaits fs.stat,     *)
(* File.create and, in its catch block, fs.unlink.  Each await is a step,  *)
(* so uploads interleave.  A file-system or database call either returns   *)
(* or throws; which of the two is the environment's choice.                *)
(***************************************************************************)
\* multer.diskStorage filename: the name ends in a suffix of the time and a
\* random number, which no other upload carries
StoredPath(u) == u

\* the files table has an auto-increment key and no row is deleted here
NextFileId == Cardinality(files) + 1

\* mutant: the catch block answers without unlinking the file
Cleanup_NoUnlink(dsk, path, throws) == [disk |-> dsk, unlinkError |-> FALSE]

\* the catch block: fs.unlink(req.file.path) removes the file, or throws (as
\* it does for a path that is not there) and the error is only logged
Cleanup(dsk, path, throws) ==
  IF throws \/ path \notin dsk
    THEN [disk |-> dsk, unlinkError |-> TRUE]
    ELSE [disk |-> dsk \ {path}, unlinkError |-> FALSE]

InitU ==
  /\ phase = "serving"
  /\ types = <<>>
  /\ regLog = <<>>
  /\ users = [u \in {1, 2, 3} |->
                [role |-> IF u = 2 THEN "user" ELSE "admin", isActive |-> u # 3]]
  /\ store = [m \in Models |-> {}]
  /\ autoInc = [m \in Models |-> 1]
  /\ res = NoResponse
  /\ form = NoForm
  /\ verdict = NoVerdict
  /\ inflight = NoInflight
  /\ hook = NoHook
  /\ disk = {}
  /\ files = {}
  /\ uploads = NoUploads
  /\ blocks = <<>>
  /\ signups = NoSignups
  /\ migration = NoMigration

\* authenticateToken, upload.single('file') and the handler up to its first
\* await: 401, or 400 without a file, or the file is on disk and fs.stat is
\* called
Receive(u, cred, hasFile) ==
  /\ uploads[u].stage = "none"
  /\ LET auth == authenticateToken("upload", cred)
     IN IF ~auth.next
          THEN /\ uploads' = [uploads EXCEPT ![u].stage = "done", ![u].status = 401]
               /\ disk' = disk
        ELSE IF ~hasFile
          THEN /\ uploads' = [uploads EXCEPT ![u].stage = "done", ![u].status = 400]
               /\ disk' = disk
        ELSE /\ uploads' = [uploads EXCEPT ![u].stage = "stat", ![u].path = StoredPath(u)]
             /\ disk' = disk \cup {StoredPath(u)}
  /\ UNCHANGED <<phase, types, regLog, users, store, autoInc, res, form, verdict, inflight,
                 hook, files, blocks, signups, migration>>

\* fs.stat returns and File.create is called, or it throws and the catch
\* block calls fs.unlink
Stat(u, throws) ==
  /\ uploads[u].stage = "stat"
  /\ uploads' = [uploads EXCEPT ![u].stage =
                   IF throws \/ uploads[u].path \notin disk THEN "unlink" ELSE "create"]
  /\ UNCHANGED <<phase, types, regLog, users, store, autoInc, res, form, verdict, inflight,
                 hook, disk, files, blocks, signups, migration>>

\* File.create inserts the record and the handler answers 200, or it throws
\* and the catch block calls fs.unlink
CreateRecord(u, throws) ==
  /\ uploads[u].stage = "create"
  /\ IF throws
       THEN /\ uploads' = [uploads EXCEPT ![u].stage = "unlink"]
            /\ files' = files
       ELSE /\ uploads' = [uploads EXCEPT ![u].stage = "done", ![u].status = 200]
            /\ files' = files \cup {[id |-> NextFileId, path |-> uploads[u].path]}
  /\ UNCHANGED <<phase, types, regLog, users, store, autoInc, res, form, verdict, inflight,
                 hook, disk, blocks, signups, migration>>

\* fs.unlink settles and the handler answers 500
Unlink(u, throws) ==
  /\ uploads[u].stage = "unlink"
  /\ LET c == Cleanup(disk, uploads[u].path, throws)
     IN /\ disk' = c.disk
        /\ uploads' = [uploads EXCEPT ![u].stage = "done", ![u].status = 500,
                                      ![u].unlinkError = c.unlinkError]
  /\ UNCHANGED <<phase, types, regLog, users, store, autoInc, res, form, verdict, inflight,
                 hook, files, blocks, signups, migration>>

NextU ==
  \/ \E u \in Uploads, cred \in SentCreds, hasFile \in BOOLEAN : Receive(u, cred, hasFile)
  \/ \E u \in Uploads, throws \in BOOLEAN : Stat(u, throws)
  \/ \E u \in Uploads, throws \in BOOLEAN : CreateRecord(u, throws)
  \/ \E u \in Uploads, throws \in BOOLEAN : Unlink(u, throws)

SpecU == InitU /\ [][NextU]_vars

(***************************************************************************)
(* Properties of the CRUD engine.                                          *)
(***************************************************************************)
\* every type name a request may carry, registered or not
AllTypes == ReqTypes \cup {S_ghost}

\* the credential names an active user
ValidCredential(cred) ==
  cred.kind = "jwt" /\ cred.userId \in DOMAIN users /\ users[cred.userId].isActive

\* the credential names an active user whose role is admin
AdminCredential(cred) == ValidCredential(cred) /\ users[cred.userId].role = "admin"

\* the outcomes of the three mutating requests a caller can make
MutationOutcomes(cred) ==
  {CreateNode(cred, type, nodeData) : type \in AllTypes, nodeData \in Bodies}
    \cup {UpdateNode(cred, r[1], r[2], r[3]) : r \in AllTypes \X ReqIds \X Bodies}
    \cup {DeleteNode(cred, type, id) : type \in AllTypes, id \in ReqIds}

\* C1: a create, update or delete request without valid credential is answered
\* 401, one with a valid credential of a non-admin 403, and neither changes a
\* node table, whatever type, id and body it names (registered or not,
\* existing or not).
C1_AuthBeforePersistence ==
  \A cred \in Creds : \A out \in MutationOutcomes(cred) :
    /\ ~ValidCredential(cred) =>
         out.res.status = 401 /\ out.store = store /\ out.autoInc = autoInc
    /\ (ValidCredential(cred) /\ ~AdminCredential(cred)) =>
         out.res.status = 403 /\ out.store = store /\ out.autoInc = autoInc

\* a non-admin was refused a delete of a registered type while rows are stored
C1_Witness ==
  /\ res.op = "delete"
  /\ res.status = 403
  /\ \E m \in Models : store[m] # {}
  /\ Len(types) > 0

\* the admin credentials among those of the scenarios
AdminCreds == {cred \in Creds : AdminCredential(cred)}

\* the id parameter names the row: its decimal value is the row's id
IdNames(id, row) == AllDigits(id) /\ parseInt(id) = row.id.v

\* the table and the field list registered for a type name
TableOf(type) == getTypeInfo(type).Model.v

FieldsOf(type) == FieldList(getTypeInfo(type).fields)

\* C2: for a registered type, a create whose body has a validation violation,
\* and an update of an existing instance whose body has one, is answered 400
\* with the list of all violations and changes no table.
C2_ValidationAllOrNothing ==
  \A cred \in AdminCreds, type \in AllTypes, nodeData \in Bodies :
    LET violations == validateNodeData(nodeData, FieldsOf(type)).errors
        rejected(out) ==
          /\ out.res.status = 400
          /\ out.res.errors = violations
          /\ out.store = store
          /\ out.autoInc = autoInc
    IN
    (isTypeRegistered(type) /\ Len(violations) >= 1) =>
      /\ rejected(CreateNode(cred, type, nodeData))
      /\ \A id \in ReqIds :
           (\E row \in store[TableOf(type)] : IdNames(id, row)) =>
             rejected(UpdateNode(cred, type, id, nodeData))

\* an update of an existing instance was rejected with two violations
C2_Witness ==
  /\ res.op = "update"
  /\ res.status = 400
  /\ Len(res.errors) = 2
  /\ \E m \in Models : store[m] # {}

\* C4: for a registered type, a delete whose id names no instance is answered
\* 404 and changes no table; a delete whose id names an instance is answered
\* 200 and removes that row and no other.
C4_Delete ==
  \A cred \in AdminCreds, type \in AllTypes, id \in ReqIds :
    isTypeRegistered(type) =>
      LET out == DeleteNode(cred, type, id)
          named == {row \in store[TableOf(type)] : IdNames(id, row)}
      IN
      /\ named = {} => out.res.status = 404 /\ out.store = store
      /\ named # {} =>
           /\ out.res.status = 200
           /\ out.store[TableOf(type)] = store[TableOf(type)] \ named
           /\ Cardinality(named) = 1
           /\ \A m \in Models \ {TableOf(type)} : out.store[m] = store[m]

\* a delete found no instance of the registered type although another row of
\* the table exists
C4_Witness ==
  /\ res.op = "delete"
  /\ res.status = 404
  /\ res.message = "Node not found"
  /\ \E m \in Models : store[m] # {}

\* C3: after a successful create of an instance of a type that declares a slug
\* field, the get endpoint of the CRUD engine returns that instance both for
\* its numeric id and for its slug.
C3_GetByIdAndBySlug ==
  (res.op = "create" /\ res.status = 201) =>
    \A cred \in AdminCreds, type \in AllTypes :
      (/\ isTypeRegistered(type)
       /\ getSlugField(type) # JUndefined
       /\ res.data \in store[TableOf(type)]) =>
        LET slug == res.data[getSlugField(type).name]
            byId == GetNode(cred, type, NumToString(res.data.id.v))
            bySlug == GetNode(cred, type, slug.v)
        IN
        /\ byId.status = 200 /\ byId.data.id = res.data.id
        /\ bySlug.status = 200 /\ bySlug.data.id = res.data.id

(***************************************************************************)
(* Properties of the path resolver and of the registry.                    *)
(***************************************************************************)
\* String.prototype.split("/")
RECURSIVE Split(_)
Split(s) ==
  IF \E i \in 1..Len(s) : s[i] = "/"
    THEN LET i == CHOOSE k \in 1..Len(s) : s[k] = "/" /\ \A j \in 1..(k - 1) : s[j] # "/"
         IN <<SubSeq(s, 1, i - 1)>> \o Split(SubSeq(s, i + 1, Len(s)))
    ELSE <<s>>

DeclaresSubpath(T) == T.settings.subpath.t = "string" /\ Len(T.settings.subpath.v) > 0

\* the path under which an instance with the given slug is published
PathOf(T, slug) ==
  IF DeclaresSubpath(T) THEN Split(T.settings.subpath.v) \o <<slug>> ELSE <<slug>>

\* the rows of a type's table a path designates: none when the path does not
\* have the shape of the type, otherwise those whose id is the key read as a
\* number or whose slug is the key
Designated(T, path) ==
  LET shaped ==
        IF DeclaresSubpath(T)
          THEN Len(path) >= 2
               /\ SubSeq(path, 1, Len(path) - 1) = Split(T.settings.subpath.v)
          ELSE Len(path) >= 1
      key == IF DeclaresSubpath(T) THEN path[Len(path)] ELSE join(path, S_slash)
      slugField == getSlugField(T.type)
  IN
  IF ~shaped THEN {}
  ELSE {row \in store[T.Model.v] :
          \/ AllDigits(key) /\ row.id.v = parseInt(key)
          \/ slugField # JUndefined /\ row[slugField.name] = JStr(key)}

\* the rows of type T whose id is the slug read as a number
NumberedBy(T, slug) ==
  {row \in store[T.Model.v] : AllDigits(slug) /\ row.id.v = parseInt(slug)}

\* C5, as the specification words it: for a registered type with slug field and a stored instance
\* with slug s, resolve of [s], or of the segments of the type's subpath
\* followed by s, returns that instance with the name of the type.
C5_ResolveBySlug ==
  \A i \in 1..Len(types) :
    LET T == types[i]
        slugField == getSlugField(T.type)
    IN
    slugField # JUndefined =>
      \A row \in store[T.Model.v] :
        LET slug == row[slugField.name] IN
        (slug.t = "string" /\ Len(slug.v) > 0) =>
          LET r == resolveNodeByPath(PathOf(T, slug.v)) IN
          r.status = 200 /\ r.data = row /\ r.nodeType = JStr(T.type)

\* C5, as the code implements it: the same, provided no type enumerated before it designates
\* an instance for that path; and when the slug is the decimal id of an
\* instance of the type, that instance is the one returned.
C5_ResolveBySlugUnlessShadowed ==
  \A i \in 1..Len(types) :
    LET T == types[i]
        slugField == getSlugField(T.type)
    IN
    slugField # JUndefined =>
      \A row \in store[T.Model.v] :
        LET slug == row[slugField.name] IN
        (slug.t = "string" /\ Len(slug.v) > 0) =>
          LET path == PathOf(T, slug.v)
              r == resolveNodeByPath(path)
          IN
          (\A j \in 1..(i - 1) : Designated(types[j], path) = {}) =>
            /\ r.status = 200
            /\ r.nodeType = JStr(T.type)
            /\ IF NumberedBy(T, slug.v) # {}
                 THEN r.data \in NumberedBy(T, slug.v)
                 ELSE r.data = row

\* resolve returned an article found below its subpath while another row of
\* the table carries an all-digit slug
C5_Witness ==
  /\ res.op = "resolve"
  /\ res.status = 200
  /\ res.nodeType = JStr(S_article)
  /\ \E row \in store["Article"] : row.slug = JStr(S_2) /\ row # res.data

ArticleUnderBlog ==
  \E i \in 1..Len(types) :
    types[i].type = S_article /\ types[i].settings.subpath = JStr(S_blog)

\* C6, as the specification words it: with article registered under subpath blog, resolve(['blog'])
\* returns no instance, whatever the tables hold.
C6_TooShortReturnsNothing ==
  ArticleUnderBlog =>
    LET r == resolveNodeByPath(<<S_blog>>) IN
    r.status = 404 /\ r.data = JUndefined

\* C6, as the code implements it: with article registered under subpath blog, resolve(['blog'])
\* never answers with type article; it returns the instance a type without
\* subpath designates for 'blog' when there is one, and otherwise answers 404
\* "Node not found" (the answer to any unmatched path).
C6_TooShortSkipsArticle ==
  ArticleUnderBlog =>
    LET r == resolveNodeByPath(<<S_blog>>)
        open == {i \in 1..Len(types) :
                   ~DeclaresSubpath(types[i]) /\ Designated(types[i], <<S_blog>>) # {}}
    IN
    /\ r.nodeType # JStr(S_article)
    /\ open = {} =>
         r.status = 404 /\ r.message = "Node not found" /\ r.data = JUndefined
    /\ open # {} =>
         /\ r.status = 200
         /\ \E i \in open :
              r.nodeType = JStr(types[i].type)
              /\ r.data \in Designated(types[i], <<S_blog>>)

\* with article registered under blog and an article with slug blog stored,
\* resolve answered with a page
C6_Witness ==
  /\ ArticleUnderBlog
  /\ \E row \in store["Article"] : row.slug = JStr(S_blog)
  /\ res.op = "resolve"
  /\ res.status = 200
  /\ res.nodeType = JStr(S_page)
  /\ res.data.slug = JStr(S_blog)

\* the position of the first register call for a type name
FirstRegistered(type) ==
  CHOOSE k \in 1..Len(regLog) :
    regLog[k].type = type /\ \A j \in 1..(k - 1) : regLog[j].type # type

\* C7: when a path designates an instance in several registered types, resolve
\* answers with the type whose (first) register call came first; when it
\* designates none, the answer is not-found.
C7_FirstRegisteredWins ==
  \A path \in Paths \ {<<>>} :
    LET matching == {i \in 1..Len(types) : Designated(types[i], path) # {}}
        r == resolveNodeByPath(path)
    IN
    /\ matching = {} => r.status = 404 /\ r.data = JUndefined
    /\ matching # {} =>
         /\ r.status = 200
         /\ \E i \in matching :
              /\ r.nodeType = JStr(types[i].type)
              /\ r.data \in Designated(types[i], path)
              /\ \A j \in matching :
                   FirstRegistered(types[i].type) <= FirstRegistered(types[j].type)

\* instances generateNodeUrl is asked about beyond the stored rows
S_x == <<"x">>

S_about == <<"a", "b", "o", "u", "t">>

SampleInstances ==
  { [id |-> JNum(1), slug |-> JStr(S_x)], [id |-> JNum(1), slug |-> JStr(S_about)],
    [id |-> JNum(1), slug |-> JStr(<<>>)], [id |-> JNum(1), slug |-> JNull],
    [id |-> JNum(1)] }

\* C8: generateNodeUrl is absent for an unregistered type, a type without slug
\* field and an instance without slug; otherwise it is "/" subpath "/" slug
\* for a type that declares a subpath and "/" slug for one that does not.
C8_GenerateNodeUrl ==
  \A type \in AllTypes :
    \A instance \in SampleInstances \cup UNION {store[m] : m \in Models} :
      LET url == generateNodeUrl(type, instance)
          registered == \E i \in 1..Len(types) : types[i].type = type
          T == types[CHOOSE i \in 1..Len(types) : types[i].type = type]
          slugFields == {k \in 1..Len(FieldList(T.fields)) :
                           FieldList(T.fields)[k].type = "slug"}
          slug == IF "slug" \in DOMAIN instance THEN instance.slug ELSE JUndefined
      IN
      IF ~registered \/ slugFields = {} \/ slug.t # "string" \/ slug.v = <<>>
        THEN url = JUndefined
      ELSE IF DeclaresSubpath(T)
        THEN url = JStr(<<"/">> \o T.settings.subpath.v \o <<"/">> \o slug.v)
             /\ (T.settings.subpath.v = S_blog /\ slug.v = S_x =>
                   url.v = <<"/", "b", "l", "o", "g", "/", "x">>)
        ELSE url = JStr(<<"/">> \o slug.v)
             /\ (slug.v = S_about => url.v = <<"/", "a", "b", "o", "u", "t">>)

\* the url route answered "/blog/2" for an article
C8_Witness ==
  /\ res.op = "nodeUrl"
  /\ res.status = 200
  /\ res.data = JStr(<<"/", "b", "l", "o", "g", "/", "2">>)

\* the most recent register call for a type name
LastRegistered(type) ==
  regLog[CHOOSE k \in 1..Len(regLog) :
           regLog[k].type = type /\ \A j \in (k + 1)..Len(regLog) : regLog[j].type # type]

\* C10: getTypeInfo(name) is absent for a name never registered and otherwise
\* holds the model, settings and fields of the most recent register call for
\* the name; the registry lists one entry per name, that of the most recent
\* call, so nothing of an earlier registration is retrievable.
C10_LastRegistrationWins ==
  /\ \A type \in AllTypes :
       IF \E k \in 1..Len(regLog) : regLog[k].type = type
         THEN /\ getTypeInfo(type) = LastRegistered(type)
              /\ getModelByType(type) = LastRegistered(type).Model
              /\ getFieldsByType(type) = FieldList(LastRegistered(type).fields)
         ELSE getTypeInfo(type) = JUndefined
  /\ \A i \in 1..Len(getAllTypeInfos) :
       /\ getAllTypeInfos[i] = LastRegistered(getAllTypeInfos[i].type)
       /\ \A j \in 1..Len(getAllTypeInfos) :
            getAllTypeInfos[i].type = getAllTypeInfos[j].type => i = j

\* page was registered twice with different model, settings and fields
C10_Witness ==
  /\ Len(regLog) = 2
  /\ regLog[1].type = regLog[2].type
  /\ regLog[1].Model # regLog[2].Model
  /\ regLog[1].fields # regLog[2].fields
  /\ Len(types) = 1

(***************************************************************************)
(* validateNodeData on its own: the initial state draws a field list and a *)
(* value map, the action applies the function.                             *)
(***************************************************************************)
Optional(values) == {JUndefined} \cup values

NumberFields(name) ==
  {[FieldBase(name, "number") EXCEPT
      !.validation = [NoValidation EXCEPT !.required = r, !.min = mn, !.max = mx]] :
     r \in Optional({JBool(TRUE)}), mn \in Optional({JNum(0), JNum(2)}),
     mx \in Optional({JNum(0), JNum(3)})}

TextFields(name) ==
  {[FieldBase(name, "text") EXCEPT
      !.validation = [NoValidation EXCEPT !.required = r, !.minLength = mn,
                                          !.maxLength = mx, !.pattern = p]] :
     r \in Optional({JBool(TRUE)}), mn \in Optional({JNum(2)}),
     mx \in Optional({JNum(0), JNum(3)}), p \in Optional({JStr(P_slug)})}

CustomFields(name) ==
  {[FieldBase(name, "textarea") EXCEPT
      !.validation = [NoValidation EXCEPT !.required = r, !.custom = JFun(c)]] :
     r \in Optional({JBool(TRUE)}), c \in {"ok", "reject", "explain", "throws"}}

ArrayFields(name) ==
  {[FieldBase(name, "array") EXCEPT !.minItems = mn, !.maxItems = mx] :
     mn \in Optional({JNum(1)}), mx \in Optional({JNum(0), JNum(1)})}

OtherFields(name) ==
  {[FieldBase(name, type) EXCEPT !.validation = [NoValidation EXCEPT !.required = r],
                                 !.multiple = m] :
     type \in {"boolean", "node", "select"}, r \in Optional({JBool(TRUE)}),
     m \in Optional({JBool(TRUE)})}

FormFields(name) ==
  NumberFields(name) \cup TextFields(name) \cup CustomFields(name)
    \cup ArrayFields(name) \cup OtherFields(name)

NodeRef == JObj({"id", "nodeType", "title"})

FormValues ==
  { JUndefined, JNull, JStr(<<>>), JStr(<<"a">>), JStr(<<"a", "b", "c", "d">>),
    JStr(<<"A", "b">>), JNum(0 - 1), JNum(0), JNum(1), JNum(5), JBool(TRUE),
    JBool(FALSE), JArr(<<>>), JArr(<<JNum(1)>>), JArr(<<NodeRef>>),
    JArr(<<NodeRef, JObj({"id"})>>), NodeRef, JObj({"id"}) }

\* every single field with every value, and some lists of two fields
Forms ==
  {[fields |-> <<fd>>, data |-> [f |-> v, g |-> JUndefined]] :
     fd \in FormFields("f"), v \in FormValues}
    \cup {[fields |-> <<fd, gd>>, data |-> [f |-> v, g |-> w]] :
            fd \in NumberFields("f"), gd \in CustomFields("g"),
            v \in {JNum(0 - 1), JNum(1)}, w \in {JUndefined, JStr(<<"a">>)}}

InitV ==
  /\ phase = "boot"
  /\ types = <<>>
  /\ regLog = <<>>
  /\ users = [u \in {1, 2, 3} |->
                [role |-> IF u = 2 THEN "user" ELSE "admin", isActive |-> u # 3]]
  /\ store = [m \in Models |-> {}]
  /\ autoInc = [m \in Models |-> 1]
  /\ res = NoResponse
  /\ form \in Forms
  /\ verdict = NoVerdict
  /\ inflight = NoInflight
  /\ hook = NoHook
  /\ disk = {}
  /\ files = {}
  /\ uploads = NoUploads
  /\ blocks = <<>>
  /\ signups = NoSignups
  /\ migration = NoMigration

Validate ==
  /\ ~verdict.done
  /\ verdict' = [verdict EXCEPT
                   !.done = TRUE,
                   !.isValid = validateNodeData(form.data, form.fields).isValid,
                   !.errors = validateNodeData(form.data, form.fields).errors]
  /\ UNCHANGED <<phase, types, regLog, users, store, autoInc, res, form, inflight, hook, disk,
                 files, uploads, blocks, signups, migration>>

\* the editor validates the same form before it submits
ValidateForm ==
  /\ ~verdict.checked
  /\ verdict' = [verdict EXCEPT !.checked = TRUE,
                                !.accepted = validateForm(form.data, form.fields)]
  /\ UNCHANGED <<phase, types, regLog, users, store, autoInc, res, form, inflight, hook, disk,
                 files, uploads, blocks, signups, migration>>

NextV == Validate \/ ValidateForm

SpecV == InitV /\ [][NextV]_vars

\* the attribute is declared by the field definition
Declared(x) == x.t # "undefined"

\* a value is present: not undefined, not null, not the empty string
Present(value) ==
  ~(value.t = "undefined" \/ value.t = "null" \/ value = JStr(<<>>))

IsNodeRef(x) == x.t = "object" /\ "id" \in x.v /\ "nodeType" \in x.v

\* the value satisfies the constraints the field declares for its type
SatisfiesType(field, value) ==
  LET val == field.validation IN
  CASE field.type \in {"text", "textarea", "email", "url", "slug"} ->
         /\ value.t = "string"
         /\ Declared(val.minLength) => Len(value.v) >= val.minLength.v
         /\ Declared(val.maxLength) => Len(value.v) <= val.maxLength.v
         /\ Declared(val.pattern) => RegExpTest(val.pattern.v, value.v)
    [] field.type = "number" ->
         /\ value.t = "number"
         /\ Declared(val.min) => value.v >= val.min.v
         /\ Declared(val.max) => value.v <= val.max.v
    [] field.type = "boolean" -> value.t = "boolean"
    [] field.type = "array" ->
         /\ value.t = "array"
         /\ Declared(field.minItems) => Len(value.v) >= field.minItems.v
         /\ Declared(field.maxItems) => Len(value.v) <= field.maxItems.v
    [] field.type = "node" ->
         IF field.multiple = JBool(TRUE)
           THEN value.t = "array" /\ \A i \in 1..Len(value.v) : IsNodeRef(value.v[i])
           ELSE IsNodeRef(value)
    [] OTHER -> TRUE

\* the custom predicate, when declared, returns true for the value
SatisfiesCustom(field, value) ==
  Declared(field.validation.custom) =>
    LET r == CustomCall(field.validation.custom.v, value) IN
    ~r.threw /\ r.value = JBool(TRUE)

\* every required field is present and every present value satisfies the
\* constraints of its field
Conforms(fields, data) ==
  \A i \in 1..Len(fields) :
    LET field == fields[i]
        value == Prop(data, field.name)
    IN
    IF Present(value)
      THEN SatisfiesType(field, value) /\ SatisfiesCustom(field, value)
      ELSE field.validation.required # JBool(TRUE)

\* C9: validateNodeData returns no violation exactly when every required
\* field is present and every present value satisfies every constraint its
\* field declares.
C9_ValidatesExactly ==
  verdict.done => (verdict.errors = <<>> <=> Conforms(form.fields, form.data))

(***************************************************************************)
(* Lookups of names that were never registered.                            *)
(***************************************************************************)
\* the names a lookup may be asked for
TypeNames == AllTypes \cup PrototypeKeys

\* no register call was made for the name
NeverRegistered(name) == \A k \in 1..Len(regLog) : regLog[k].type # name

\* the requests of the CRUD engine that name a type
CrudResponses(cred, name) ==
  {GetFields(cred, name)}
    \cup {CreateNode(cred, name, nodeData).res : nodeData \in Bodies}
    \cup {UpdateNode(cred, name, r[1], r[2]).res : r \in ReqIds \X Bodies}
    \cup {DeleteNode(cred, name, id).res : id \in ReqIds}
    \cup {GetNode(cred, name, id) : id \in ReqIds}

\* C11: isTypeRegistered(name) is true exactly when a register call for the
\* name has happened; for a name never registered the four lookups return
\* undefined and every request of the CRUD engine naming it is answered 404.
C11_UnknownNamesAbsent ==
  \A name \in TypeNames :
    /\ isTypeRegistered(name) <=> ~NeverRegistered(name)
    /\ NeverRegistered(name) =>
         /\ getTypeInfo(name) = JUndefined
         /\ getModelByType(name) = JUndefined
         /\ getFieldsByType(name) = JUndefined
         /\ getSlugField(name) = JUndefined
         /\ \A cred \in AdminCreds : \A r \in CrudResponses(cred, name) : r.status = 404

(***************************************************************************)
(* The body of a successful create or update.                              *)
(***************************************************************************)
\* C12: the instance in the body of a successful create or update is what the
\* get endpoint of the CRUD engine returns for its id right afterwards, the
\* display form of the instance.
C12_ReturnsDisplayForm ==
  (res.op \in {"create", "update"} /\ res.status \in {200, 201}) =>
    \A cred \in AdminCreds, type \in AllTypes :
      (HasOwnType(type) /\ res.data \in store[TableOf(type)]) =>
        LET shown == GetNode(cred, type, NumToString(res.data.id.v)) IN
        /\ shown.status = 200
        /\ res.data = shown.data
        /\ res.data = processNodeForDisplay(res.data, FieldsOf(type))

(***************************************************************************)
(* The slugs the tables hold.                                              *)
(***************************************************************************)
\* every register call so far declared a slug field
OnlySlugTypes ==
  \A k \in 1..Len(regLog) :
    \E i \in 1..Len(FieldList(regLog[k].fields)) : FieldList(regLog[k].fields)[i].type = "slug"

\* C14: after any sequence of successful creates and updates through types
\* that declare the slug field of page and article, every slug a table holds
\* matches ^[a-z0-9-]+$.
C14_StoredSlugMatchesPattern ==
  OnlySlugTypes =>
    \A m \in Models : \A row \in store[m] :
      row.slug.t = "string" /\ RegExpTest(P_slug, row.slug.v)

\* an update has rewritten the slug of a stored row
C14_Witness ==
  /\ OnlySlugTypes
  /\ res.op = "update"
  /\ res.status = 200
  /\ \E m \in Models : \E row \in store[m] : row.id = JNum(1) /\ row.slug = JStr(S_blog)
  /\ \E m \in Models : \E row \in store[m] : row.id = JNum(2)

(***************************************************************************)
(* Properties of requests in progress at the same time.                    *)
(***************************************************************************)
\* the slots whose update has read its instance and not yet written
Reading == {s \in Slots : inflight[s].stage = "read"}

\* the body of the slot passes the validation of its type
PassesValidation(s) ==
  validateNodeData(inflight[s].nodeData, FieldsOf(inflight[s].type)).isValid

\* the save hooks of the slot's type, run on its body and the instance it read
HooksOf(s) ==
  processNodeForSave(inflight[s].nodeData, FieldsOf(inflight[s].type), inflight[s].node)

\* another row of the table holds the slug
SlugTaken(Model, slug, id) == \E r \in store[Model] : r.slug = slug /\ r.id # id

\* the instance the slot read is still a row of its table
StillStored(s) == \E r \in store[inflight[s].Model] : r.id = inflight[s].node.id

\* C13: in every table no two rows have the same slug, whatever creates and
\* updates ran and however they overlapped; a create, and the write of an
\* update in progress on a row of the table, whose slug another row holds
\* fails and changes no table.
C13_SlugsUnique ==
  /\ \A m \in Models : \A r1, r2 \in store[m] : r1.slug = r2.slug => r1 = r2
  /\ \A type \in ConcurrentTypes, nodeData \in ConcurrentBodies :
       SlugTaken(TableOf(type), nodeData.slug, JNull) =>
         LET out == CreateNode(Admin, type, nodeData) IN
         ~out.res.success /\ out.store = store /\ out.autoInc = autoInc
  /\ \A s \in Reading :
       (/\ StillStored(s)
        /\ SlugTaken(inflight[s].Model, inflight[s].nodeData.slug, inflight[s].node.id)) =>
         ~Pending(s).res.success /\ Pending(s).store = store

\* an update of a page that read its instance would now duplicate a slug that
\* an update which has just succeeded gave to another row
C13_Witness ==
  \E s \in Reading :
    /\ inflight[s].type = S_page
    /\ SlugTaken("Page", inflight[s].nodeData.slug, inflight[s].node.id)
    /\ ~SlugTaken("Page", inflight[s].node.slug, inflight[s].node.id)
    /\ res.op = "update"
    /\ res.status = 200
    /\ res.data.slug = inflight[s].nodeData.slug

\* a save hook of the field list throws on the value the body has for its field
HookThrows(fields, nodeData, instance) ==
  \E i \in 1..Len(fields) :
    /\ fields[i].save.t = "function"
    /\ Prop(nodeData, fields[i].name).t # "undefined"
    /\ SaveCall(fields[i].save.v, instance, Prop(nodeData, fields[i].name)).threw

\* C16: when a save hook throws, the create or update is answered 500 and no
\* table changes: no row is inserted, and the row of the instance keeps every
\* column, those whose hooks ran before the failing one included.
C16_SaveHookFailureWritesNothing ==
  /\ \A type \in ConcurrentTypes, nodeData \in ConcurrentBodies :
       LET fields == FieldsOf(type) IN
       validateNodeData(nodeData, fields).isValid =>
         /\ HookThrows(fields, nodeData, EmptyObject) =>
              LET out == CreateNode(Admin, type, nodeData) IN
              out.res.status = 500 /\ out.store = store /\ out.autoInc = autoInc
         /\ \A id \in ConcurrentIds :
              LET read == UpdateRead(Admin, type, id) IN
              (read.proceed /\ HookThrows(fields, nodeData, read.node)) =>
                LET out == UpdateNode(Admin, type, id, nodeData) IN
                out.res.status = 500 /\ out.store = store /\ out.autoInc = autoInc
  /\ \A s \in Reading :
       (/\ PassesValidation(s)
        /\ HookThrows(FieldsOf(inflight[s].type), inflight[s].nodeData, inflight[s].node)) =>
         Pending(s).res.status = 500 /\ Pending(s).store = store

\* an update through the type whose title hook throws was answered 500; the
\* slug hook had assigned the new slug to the instance, the only row of the
\* table still has the old one
C16_Witness ==
  /\ res.op = "update"
  /\ res.status = 500
  /\ store["Article"] = {}
  /\ \E row \in store["Page"] : store["Page"] = {row} /\ row.slug = JStr(S_2)
  /\ \A s \in Slots : inflight[s].stage = "idle"

\* the update of the slot is one of two in progress on the same instance, both
\* with a body that passes validation
Concurrent(s) ==
  /\ s \in Reading
  /\ PassesValidation(s)
  /\ \E o \in Reading \ {s} :
       /\ inflight[o].Model = inflight[s].Model
       /\ inflight[o].node.id = inflight[s].node.id
       /\ PassesValidation(o)

LoadThrows(field, instance) ==
  field.load.t = "function" /\ LoadCall(field.load.v, instance).threw

\* the field list with the throwing load hooks replaced by one that returns
\* nothing
Unfailing(fields, instance) ==
  [i \in 1..Len(fields) |->
     IF LoadThrows(fields[i], instance)
       THEN [fields[i] EXCEPT !.load = JFun("nothing")]
       ELSE fields[i]]

\* C15: when the load hook of a field throws, processNodeForDisplay still
\* returns the display form: that field has the raw value of the instance and
\* every other field is what it is when no hook throws.
C15_LoadFailureKeepsRaw ==
  hook.done =>
    \A i \in 1..Len(hook.fields) :
      LoadThrows(hook.fields[i], hook.instance) =>
        /\ DOMAIN hook.out = DOMAIN hook.instance
        /\ hook.out[hook.fields[i].name] = hook.instance[hook.fields[i].name]
        /\ \A k \in DOMAIN hook.out :
             (\A j \in 1..Len(hook.fields) :
                hook.fields[j].name = k => ~LoadThrows(hook.fields[j], hook.instance)) =>
               hook.out[k] =
                 processNodeForDisplay(hook.instance,
                                       Unfailing(hook.fields, hook.instance))[k]

\* the load hook of the title threw while that of the content parsed the
\* stored text into another value
C15_Witness ==
  /\ hook.done
  /\ LoadThrows(hook.fields[2], hook.instance)
  /\ hook.fields[3].load = JFun("jsonParse")
  /\ hook.out.content # hook.instance.content
  /\ hook.out.title = hook.instance.title

(***************************************************************************)
(* Registration and the first request.                                     *)
(***************************************************************************)
\* C17: every registration has completed before the server handles its first
\* request: once a request has been answered the registry does not change, so
\* no request sees a registry without a type that a later request sees.
C17_RegistryCompleteBeforeRequests ==
  [][(phase = "serving" /\ res.op # "none") => types' = types]_vars

(***************************************************************************)
(* Failed uploads.                                                         *)
(***************************************************************************)
\* an upload that received a file and was answered 500
FailedUpload(u) == uploads[u].stage = "done" /\ uploads[u].status = 500

Referenced(path) == \E f \in files : f.path = path

Names(message, name) == \E j \in DOMAIN message : message[j] = name

\* C20: every violation message of validateNodeData contains the name of a
\* field of the list, whichever rule produced it, custom validators included.
C20_MessagesNameField ==
  verdict.done =>
    \A i \in DOMAIN verdict.errors :
      \E k \in DOMAIN form.fields : Names(verdict.errors[i], form.fields[k].name)

(***************************************************************************)
(* The slug convention.                                                    *)
(***************************************************************************)
\* the text the table of samples gives for a slug text
Conventional(text) == (CHOOSE x \in SlugSamples : x.in = text).out

\* the field list has a save hook for the key
Hooked(fields, key) ==
  \E i \in DOMAIN fields : fields[i].name = key /\ fields[i].save.t = "function"

With(body, key, value) ==
  [k \in DOMAIN body \cup {key} |-> IF k = key THEN value ELSE body[k]]

\* valid bodies that also carry an id, an authorId, or both
ExtraBodies ==
  { With(Body(S_2), "id", JNum(7)), With(Body(S_2), "authorId", JNum(2)),
    With(With(Body(S_blog), "id", JNum(7)), "authorId", JNum(2)) }

\* C27: columns outside the field list are never set from the body: an update
\* leaves id and authorId of the instance as they were, and a create stores
\* the caller's id as authorId and the id the store assigns.
C27_UnlistedColumnsNotSet ==
  \A cred \in AdminCreds, type \in AllTypes, nodeData \in ExtraBodies :
    HasOwnType(type) =>
      /\ LET out == CreateNode(cred, type, nodeData) IN
         out.res.status = 201 =>
           /\ out.res.data.id = JNum(autoInc[TableOf(type)])
           /\ out.res.data.authorId = JNum(cred.userId)
      /\ \A id \in ReqIds :
           LET out == UpdateNode(cred, type, id, nodeData) IN
           out.res.status = 200 =>
             \A row \in store[TableOf(type)] :
               IdNames(id, row) =>
                 \E now \in out.store[TableOf(type)] :
                   now.id = row.id /\ now.authorId = row.authorId

(***************************************************************************)
(* Save hooks that set a column of the owner instance.                     *)
(***************************************************************************)
\* the column the title hook of the type sets, and the value it sets
ColumnSet(type) == IF type = S_note THEN "title" ELSE "slug"

ValueSet(nodeData) == JStr(toLowerCase(trim(nodeData["title"].v)))

\* C25: what a save hook sets on the owner instance, returning nothing, is
\* stored by the write that follows, on create and on update.
C25_HookMutationStored ==
  \A type \in MutatingTypes, nodeData \in MutatingBodies :
    /\ LET out == CreateNode(Admin, type, nodeData) IN
       out.res.status = 201 =>
         \E row \in out.store["Page"] \ store["Page"] :
           row[ColumnSet(type)] = ValueSet(nodeData)
    /\ \A id \in ConcurrentIds :
         LET out == UpdateNode(Admin, type, id, nodeData) IN
         out.res.status = 200 =>
           \E row \in out.store["Page"] :
             IdNames(id, row) /\ row[ColumnSet(type)] = ValueSet(nodeData)

(***************************************************************************)
(* Update and a concurrent delete.                                         *)
(***************************************************************************)
\* C28: an update in progress answers with success only if the instance it
\* read is still a row of the table when it writes.
C28_UpdateSucceedsOnlyOnStored ==
  \A s \in Reading : Pending(s).res.status = 200 => StillStored(s)

(***************************************************************************)
(* The per-type lookup of the path resolver.                               *)
(***************************************************************************)
LookupKeys == ReqIds \cup {S_7, S_Blog, <<"0", "2">>}

\* the decimal value of a key that consists of digits only
KeyNumber(key) ==
  IF \A i \in DOMAIN key : key[i] \in {"0", "1", "2", "3", "4", "5", "6", "7", "8", "9"}
    THEN parseInt(key) ELSE 0 - 1

\* the field list of the type has a field of type slug
HasSlugField(type) == \E i \in DOMAIN FieldsOf(type) : FieldsOf(type)[i].type = "slug"

\* C24: for a key of digits the lookup returns the instance with that id when
\* there is one, and only otherwise the instance whose slug is the key; for
\* any other key only the slug is consulted; a type without slug field gives
\* no match by slug.
C24_IdThenSlug ==
  \A type \in AllTypes, key \in LookupKeys :
    HasOwnType(type) =>
      LET table == store[TableOf(type)]
          byId == {row \in table : row.id.v = KeyNumber(key)}
          bySlug == {row \in table : HasSlugField(type) /\ row.slug = JStr(key)}
          found == findNodeBySlug(type, key)
      IN
      IF byId # {} THEN found \in byId
      ELSE IF bySlug # {} THEN found \in bySlug
      ELSE found = JNull

\* the path ['2'] was resolved to instance 2 while another instance of the
\* table has the slug '2'
C24_Witness ==
  /\ res.op = "resolve"
  /\ res.status = 200
  /\ res.data.id = JNum(2)
  /\ \E type \in AllTypes :
       /\ HasOwnType(type)
       /\ HasSlugField(type)
       /\ res.data \in store[TableOf(type)]
       /\ \E row \in store[TableOf(type)] : row.slug = JStr(S_2) /\ row.id = JNum(1)

(***************************************************************************)
(* URL generation and path resolution.                                     *)
(***************************************************************************)
\* urlPath.split('/').filter(Boolean)
UrlSegments(url) ==
  LET nonEmpty(seg) == Len(seg) > 0 IN SelectSeq(Split(url), nonEmpty)

\* C26: for a registered type with slug field and a stored instance with a
\* slug, resolving the segments of generateNodeUrl(type, instance) returns
\* that instance and that type name.
C26_ResolveInvertsUrl ==
  \A type \in AllTypes :
    (HasOwnType(type) /\ HasSlugField(type)) =>
      \A row \in store[TableOf(type)] :
        Truthy(row.slug) =>
          LET url == generateNodeUrl(type, row)
              out == resolveNodeByPath(UrlSegments(url.v))
          IN /\ url.t = "string"
             /\ out.status = 200
             /\ out.data = row
             /\ out.nodeType = JStr(type)

(***************************************************************************)
(* The operations on the value of a blocks field.                          *)
(***************************************************************************)
\* how often a block occurs in a list
Occurrences(list, block) == Cardinality({i \in DOMAIN list : list[i] = block})

SameBlocks(a, b) ==
  /\ Len(a) = Len(b)
  /\ \A i \in DOMAIN a : Occurrences(a, a[i]) = Occurrences(b, a[i])

\* list b is list a with the entries at i and i + 1 exchanged
Exchanged(a, b, i) ==
  /\ Len(a) = Len(b)
  /\ b[i] = a[i + 1]
  /\ b[i + 1] = a[i]
  /\ \A j \in DOMAIN a \ {i, i + 1} : b[j] = a[j]

\* the entries of the list that do not have the id, in their order
RECURSIVE Without(_, _)
Without(list, blockId) ==
  IF Len(list) = 0 THEN <<>>
  ELSE (IF list[1].id = blockId THEN <<>> ELSE <<list[1]>>) \o Without(Tail(list), blockId)

\* C22: removeBlock removes exactly the entries with the id; moveBlock
\* exchanges the first block with the id and its neighbour, or changes nothing
\* at an end of the list and for an unknown id, and keeps the blocks and the
\* order of the others; updateBlockField changes only the data of the blocks
\* with the id; addBlock appends; so every block that stays keeps id and type.
C22_BlockOperations ==
  \A blockId \in BlockIds :
    /\ removeBlock(blocks, blockId) = Without(blocks, blockId)
    /\ \A direction \in {"up", "down"} :
         LET out == moveBlock(blocks, blockId, direction)
             at == {i \in DOMAIN blocks : blocks[i].id = blockId}
             first == CHOOSE i \in at : \A j \in at : i <= j
         IN /\ SameBlocks(blocks, out)
            /\ Without(out, blockId) = Without(blocks, blockId)
            /\ IF at = {} THEN out = blocks
               ELSE IF direction = "up"
                 THEN IF first = 1 THEN out = blocks ELSE Exchanged(blocks, out, first - 1)
               ELSE IF first = Len(blocks) THEN out = blocks
               ELSE Exchanged(blocks, out, first)
    /\ \A fieldName \in BlockFieldNames, fieldValue \in BlockFieldValues :
         LET out == updateBlockField(blocks, blockId, fieldName, fieldValue) IN
         /\ Len(out) = Len(blocks)
         /\ \A i \in DOMAIN blocks :
              /\ out[i].id = blocks[i].id
              /\ out[i].type = blocks[i].type
              /\ blocks[i].id # blockId => out[i] = blocks[i]
              /\ blocks[i].id = blockId =>
                   /\ out[i].data[fieldName] = fieldValue
                   /\ \A k \in DOMAIN blocks[i].data \ {fieldName} :
                        out[i].data[k] = blocks[i].data[k]
    /\ \A blockType \in BlockTypes :
         SubSeq(addBlock(blocks, blockType, blockId), 1, Len(blocks)) = blocks

\* three blocks, the second of which was given a heading after it had been
\* moved up from the end
C22_Witness ==
  /\ Len(blocks) = 3
  /\ blocks[1].id = "block-1"
  /\ blocks[2].id = "block-2"
  /\ blocks[3].id = "block-1"
  /\ blocks[2].data # EmptyObject
  /\ blocks[1].type # blocks[3].type

(***************************************************************************)
(* The validation of the editor and that of the server.                    *)
(***************************************************************************)
\* C23: validateForm accepts a form exactly when validateNodeData finds no
\* violation in it.
C23_ClientMirrorsServer ==
  (verdict.done /\ verdict.checked) => (verdict.accepted <=> verdict.isValid)

(***************************************************************************)
(* The first user.                                                         *)
(***************************************************************************)
\* C29: starting from an empty users table, at most one user has the admin
\* role through registration, however the register requests interleave.
C29_AtMostOneAdmin ==
  Cardinality({u \in DOMAIN users : users[u].role = "admin"}) <= 1

(***************************************************************************)
(* The migrate run.                                                        *)
(***************************************************************************)
\* C30, as the specification words it: after a run in which an up failed
\* the records are those found when the run began, and after a run that
\* completed every version is recorded and a further run applies nothing.
C30_MigrateAtomic ==
  /\ migration.stage = "failed" =>
       RecordedVersions(migration.recorded) = migration.existing
  /\ migration.stage = "done" =>
       /\ RecordedVersions(migration.recorded) = Versions
       /\ NextPending(RecordedVersions(migration.recorded), 0) > MaxMigrations

====
